---- MODULE Spec2Model ----
(***************************************************************************)
(* FaceRecognitionService (recognition_service.py) and the request         *)
(* handlers of routes/api.py that drive it.                                *)
(*                                                                         *)
(* One service object is shared by every request thread of the Flask       *)
(* server.  A streaming request runs generate_frames or                    *)
(* generate_enrollment_preview as a generator on its own request thread;   *)
(* POST /recognition/stop, POST /enrollment/stop and POST                  *)
(* /enrollment/capture run on further request threads.  The state is the   *)
(* service's fields, each generator's position and locals, and the         *)
(* position of the photo-capture request.                                  *)
(*                                                                         *)
(* A step is one access to shared state (a flag read or write under        *)
(* _streaming_lock, a camera call) together with the thread-local code     *)
(* that follows it up to the next such access.                             *)
(***************************************************************************)
EXTENDS Integers, FiniteSets, Sequences, TLC

\* Number of streaming requests that can be in progress at the same time.
NumLoops == 2

\* Cap of the history counter fails (failures seen in one session).
MaxFails == 6

\* recognition_service.py:283 and :592
max_consecutive_errors == 5

\* Last instant of the clock, in ticks of TickSeconds.
MaxTime == 3

\* Largest configured value of ATTENDANCE_COOLDOWN_MINUTES that is tried.
MaxCooldown == 1

\* Most detections process_frame returns for one frame.
MaxFaces == 2

\* Most rows of attendance_records (for the one session and student followed).
MaxRecords == 2

\* The instants at which datetime.utcnow() is read are TickSeconds apart.
TickSeconds == 30

\* recognition_service.py:316, "30 second local cooldown"
local_cooldown_seconds == 30

\* database.py:182, timedelta(minutes=cooldown_minutes)
SecondsPerMinute == 60

\* config.py:49, the value of ATTENDANCE_COOLDOWN_MINUTES when the environment
\* does not set it.
ATTENDANCE_COOLDOWN_MINUTES == 5

\* Most entries of the known set (enrolled students with an encoding).
MaxKnown == 2

\* Embeddings are points 0..MaxCoord of a line; the L2 distance of two of them
\* is the absolute value of their difference.
MaxCoord == 2

\* Largest configured value of RECOGNITION_THRESHOLD that is tried.
MaxThreshold == 2

\* Most bytes between the two markers of an encoded frame.
MaxBody == 2

\* Most calls of the camera methods in a row.
MaxCalls == 4

\* Most frames the camera delivers.
MaxFrames == 4

\* Largest configured value of PROCESS_EVERY_N_FRAMES that is tried.
MaxStride == 2

\* config.py:36, the value of PROCESS_EVERY_N_FRAMES when the environment does
\* not set it.
PROCESS_EVERY_N_FRAMES == 2

\* config.py:35, the value of RECOGNITION_THRESHOLD when the environment does
\* not set it.
RECOGNITION_THRESHOLD == 20

\* recognition_service.py:157, the distance returned with an empty known set.
sentinel_distance == 1

Loops == 1..NumLoops

\* The two session kinds: generate_frames and generate_enrollment_preview.
Kinds == {"recognition", "enrollment"}

\* What one pass through the loop body can come to after capture_frame():
\*   noframe     capture_frame returned None or an empty frame
\*   exception   process_frame / app.get / imencode raised
\*   encodefail  cv2.imencode returned ret = False
\*   ok          a frame was encoded
Outcomes == {"ok", "noframe", "encodefail", "exception"}

VARIABLES
    camera_started,      \* self.camera_started
    streaming,           \* kind -> self._recognition_streaming / self._enrollment_streaming
    pc,                  \* loop -> position of the generator
    kind,                \* loop -> which generator function the request runs
    consecutive_errors,  \* loop -> the generator's local consecutive_errors
    photo_pc,            \* position of the POST /enrollment/capture request
    reason,              \* history: loop -> why its loop was left
    stale,               \* history: loop -> captures and yields done while its flag was false
    pending,             \* history: loop -> a stop request was issued while it was running
    streak,              \* history: loop -> failed passes since the last successful one
    fails,               \* history: loop -> failed passes since the session started
    clock,               \* datetime.utcnow(), in ticks
    cooldown_minutes,    \* config.ATTENDANCE_COOLDOWN_MINUTES as configured
    records,             \* timestamps of the attendance_records rows, in insertion order
    recent_detections,   \* loop -> the generator's local recent_detections
    left,                \* loop -> detections of the frame the for loop has not finished
    detection,           \* loop -> name of the detection the for loop is at
    offer_now,           \* loop -> the local now of the offer in progress
    post_pc,             \* position of the POST /attendance request
    outcome,             \* history: loop -> how its last detection or frame came out
    recorded_at,         \* history: loop -> when the sink last returned it a record
    known_encodings,     \* self.known_encodings
    known_names,         \* self.known_names
    known_ids,           \* self.known_ids
    threshold,           \* config.RECOGNITION_THRESHOLD as configured
    reload_pc,           \* position of the load_encodings_from_db call in progress
    encodings_list,      \* its local encodings_list (once it is done: what it loaded)
    rf_pc,               \* position of the recognize_face call in progress
    embedding,           \* its argument
    min_distance_idx,    \* its local min_distance_idx
    min_distance,        \* its local min_distance
    rf_name,             \* the name it has read from known_names
    result,              \* what the last recognize_face call returned (none during a call)
    loaded,              \* history: the list the last completed load installed
    known_owner,         \* history: student id of the entry each known encoding is of
    rf_owner,            \* history: student id of the entry that gave min_distance
    frame_counter,       \* self.frame_counter
    process_every,       \* self.process_every
    last_faces,          \* self.last_faces: how many faces, and of which frame
    captured,            \* history: how many frames the camera has delivered
    frame,               \* loop -> the frame it holds, by its number in capture order
    detected,            \* history: loop -> its last process_frame call ran app.get
    drawn,               \* history: loop -> the frame whose faces it drew last
    emitted,             \* history: loop -> the frame it yielded last in this session
    since,               \* history: loop -> the last frame captured before its session
    called,              \* history: process_frame was never called, has only raised
                         \* in app.get, or has got to its increment
    device,              \* the camera device is started (picam2)
    device_calls,        \* history: how many calls of picam2 have been made
    trace,               \* history: the camera methods called, in order
    cam_result,          \* history: how the last of them ended
    frame_bytes,         \* loop -> its local frame_bytes (buffer.tobytes())
    unit,                \* history: loop -> the bytes it yielded last
    loads,               \* request thread -> its load_encodings_from_db call: position,
                         \* local encodings_list, and how far its for loop is
    session,             \* the attendance_sessions row followed: status and end_time
    session_id,          \* loop -> the session_id its generate_frames call was given
    record_status,       \* history: the status the session had when each row of
                         \* attendance_records was inserted
    sink_calls,          \* history: loop -> student -> when its session called the sink
                         \* for the student last, and the last call that was Recorded
    run,                 \* the run_recognition_loop call of the script: position,
                         \* arguments and locals, and what ended it
    settled              \* "no", or how the session ended after which the camera works,
                         \* the consumer keeps pulling and nobody stops the stream

hist == <<reason, stale>>
obs == <<pending, streak, fails>>
gate == <<clock, cooldown_minutes, records, recent_detections, left, detection,
          offer_now, post_pc, outcome, recorded_at>>
store == <<known_encodings, known_names, known_ids, threshold, reload_pc,
           encodings_list, rf_pc, embedding, min_distance_idx, min_distance, rf_name,
           result, loaded, known_owner, rf_owner>>
pipe == <<frame_counter, process_every, last_faces, captured, frame, detected, drawn,
          emitted, since, called>>
cam == <<device, device_calls, trace, cam_result>>
wire == <<frame_bytes, unit>>
others == <<store, pipe, cam, wire, loads>>
held == <<session, session_id, record_status>>
more == <<loads, session, session_id, record_status, sink_calls, run, settled>>
extras == <<store, pipe, cam, wire, more>>
vars == <<camera_started, streaming, pc, kind, consecutive_errors, photo_pc,
          reason, stale, pending, streak, fails,
          clock, cooldown_minutes, records, recent_detections, left, detection,
          offer_now, post_pc, outcome, recorded_at,
          known_encodings, known_names, known_ids, threshold, reload_pc,
          encodings_list, rf_pc, embedding, min_distance_idx, min_distance, rf_name,
          result, loaded, known_owner, rf_owner,
          frame_counter, process_every, last_faces, captured, frame, detected, drawn,
          emitted, since, called, device, device_calls, trace, cam_result,
          frame_bytes, unit, loads, session, session_id, record_status, sink_calls, run,
          settled>>

Min(a, b) == IF a < b THEN a ELSE b

\* Positions inside the while loop of a generator.
LoopPcs == {"while", "chk1", "capture", "capwarm", "chk2", "yield", "suspended", "chk3",
            "process", "offers", "query", "insert", "encode"}

\* The one student whose detections and records are followed; the cooldown map
\* and the query of mark_attendance are keyed by student, so what happens to one
\* student does not depend on the others.
Students == {"s1"}

\* detection['name'] as recognize_face returns it.
Names == Students \cup {"Unknown"}

Times == 0..MaxTime

\* A dict from student to time, and its update m[k] = v.
Maps == UNION {[D -> Times] : D \in SUBSET Students}
EmptyMap == [s \in {} |-> 0]
Put(m, k, v) == [x \in DOMAIN m \cup {k} |-> IF x = k THEN v ELSE m[x]]

\* The ids of the students table and the names of its rows.
StudentIds == 1..MaxKnown
AllNames == <<"s1", "s2", "s3", "s4">>
name_of(i) == AllNames[i]

\* None as a student id.
NoId == 0

Coords == 0..MaxCoord

\* One row of DatabaseManager.get_all_face_encodings: a student and the
\* student's encoding.
Entries == [id : StudentIds, enc : Coords]

\* What get_all_face_encodings can return: one row per active encoding, in the
\* order of the query; a student can have several.
Catalogues == UNION {[1..n -> Entries] : n \in 0..MaxKnown}

\* A recognize_face that returns distance 0 with an empty known set.
EmptyStoreResult_Zero == [name |-> "Unknown", distance |-> 0, id |-> NoId]

\* return "Unknown", 1.0, None
EmptyStoreResult == [name |-> "Unknown", distance |-> sentinel_distance, id |-> NoId]

\* No call has returned yet or one is in progress / the call raised.
NoResult == [name |-> "none", distance |-> 0, id |-> NoId]
RaisedResult == [name |-> "raised", distance |-> 0, id |-> NoId]

\* end_time of a session that has not ended (None), and the id of the session
\* followed.
NoTime == -1
TheSession == 1

\* run_recognition_loop not called: no arguments, no locals.
NotRun ==
    [pc |-> "idle", session_id |-> NoId, frame |-> "none", left |-> 0,
     recent |-> NoTime, why |-> "none"]

\* The request threads that can be in load_encodings_from_db together: one of
\* POST /recognition/reload and one of POST /enrollment/complete.
Loaders == {"reload", "complete"}

\* Results of get_all_face_encodings in which every student has one encoding,
\* the one of the photo enrolled.
Rosters == {list \in Catalogues : \A i \in 1..Len(list) : list[i].enc = list[i].id - 1}

\* A byte, and the bytes a JPEG file starts and ends with.
Bytes == 0..255
StartOfImage == <<255, 216>>
EndOfImage == <<255, 217>>

\* What cv2.imencode('.jpg', ...) followed by buffer.tobytes() can give: the
\* two markers around a few bytes, line ends and marker bytes among them.
Jpegs ==
    {StartOfImage \o body \o EndOfImage :
        body \in UNION {[1..n -> {10, 13, 255}] : n \in 0..MaxBody}}

\* The camera methods of the service.
Methods == {"start_camera", "stop_camera", "capture_frame"}

\* self.last_faces = [] of __init__: no face, of no frame.
NoFaces == [frame |-> 0, n |-> 0]

\* How a detection, or the frame it was in, came out:
\*   Unknown      the detection's name is "Unknown": not offered
\*   InMemory     skipped by the local 30 s cooldown, no sink call
\*   Calling      mark_attendance has been called and has not returned
\*   Recorded     mark_attendance returned a record
\*   Null         mark_attendance returned None
\*   Raised       mark_attendance raised
\*   DetectError  app.get raised in process_frame
\*   MatchError   recognize_face raised in process_frame
Ends == {"none", "Unknown", "InMemory", "Calling", "Recorded", "Null", "Raised",
         "DetectError", "MatchError"}

Running(g) == pc[g] \in LoopPcs

\* is_recognition_streaming() / is_enrollment_streaming() of the loop's kind.
is_streaming(g) == streaming[kind[g]]

TypeOK ==
    /\ camera_started \in BOOLEAN
    /\ streaming \in [Kinds -> BOOLEAN]
    /\ pc \in [Loops -> LoopPcs \cup {"idle", "warm", "setflag", "cleanup", "stopcam", "done"}]
    /\ kind \in [Loops -> Kinds]
    /\ consecutive_errors \in [Loops -> 0..(max_consecutive_errors - 1)]
    /\ photo_pc \in {"idle", "warm", "capture"}
    /\ reason \in [Loops -> {"none", "stop", "disconnect", "ceiling"}]
    /\ stale \in [Loops -> 0..2]
    /\ pending \in [Loops -> BOOLEAN]
    /\ streak \in [Loops -> 0..max_consecutive_errors]
    /\ fails \in [Loops -> 0..MaxFails]
    /\ clock \in Times
    /\ cooldown_minutes \in Nat
    /\ records \in Seq(Times) /\ Len(records) <= MaxRecords
    /\ recent_detections \in [Loops -> Maps]
    /\ left \in [Loops -> 0..MaxFaces]
    /\ detection \in [Loops -> Names \cup {"none"}]
    /\ offer_now \in [Loops -> Times]
    /\ post_pc \in {"idle", "insert"}
    /\ outcome \in [Loops -> Ends]
    /\ recorded_at \in [Loops -> Maps]
    /\ known_encodings \in Seq(Coords)
    /\ known_names \in Seq({name_of(i) : i \in StudentIds})
    /\ known_ids \in Seq(StudentIds)
    /\ known_owner \in Seq(StudentIds)
    /\ threshold \in Nat
    /\ reload_pc \in {"idle", "clear_e", "clear_n", "clear_i", "app_e", "app_n", "app_i"}
    /\ encodings_list \in Catalogues
    /\ loaded \in Catalogues
    /\ rf_pc \in {"idle", "dist", "name", "id"}
    /\ embedding \in Coords
    /\ min_distance_idx \in 0..MaxKnown
    /\ min_distance \in Coords
    /\ rf_name \in {name_of(i) : i \in StudentIds} \cup {"none"}
    /\ rf_owner \in StudentIds \cup {NoId}
    /\ frame_counter \in 0..MaxFrames
    /\ process_every \in Nat \ {0}
    /\ last_faces \in [frame : 0..MaxFrames, n : 0..MaxFaces]
    /\ captured \in 0..MaxFrames
    /\ frame \in [Loops -> 0..MaxFrames]
    /\ detected \in [Loops -> BOOLEAN]
    /\ drawn \in [Loops -> 0..MaxFrames]
    /\ emitted \in [Loops -> 0..MaxFrames]
    /\ since \in [Loops -> 0..MaxFrames]
    /\ called \in {"never", "raised", "counted"}
    /\ frame_bytes \in [Loops -> Seq(Bytes)]
    /\ unit \in [Loops -> Seq(Bytes)]
    /\ loads \in [Loaders -> [pc : {"idle", "clear_e", "clear_n", "clear_i",
                                      "app_e", "app_n", "app_i"},
                                list : Catalogues, i : 0..MaxKnown]]
    /\ settled \in {"no", "none", "stop", "disconnect", "ceiling"}
    /\ run \in [pc : {"idle", "warm", "capture", "process", "offers", "sleep",
                       "finally", "ended"},
                 session_id : {NoId, TheSession},
                 frame : {"none", "None", "frame"},
                 left : 0..MaxFaces,
                 recent : {NoTime} \cup 0..MaxTime,
                 why : {"none", "capture", "process", "sink", "interrupt"}]
    /\ session \in [status : {"active", "completed"}, end_time : {NoTime} \cup 0..MaxTime]
    /\ session_id \in [Loops -> {NoId, TheSession}]
    /\ record_status \in Seq({"active", "completed"})
    /\ Len(record_status) <= MaxRecords
    /\ \A g \in Loops :
          /\ DOMAIN sink_calls[g] \subseteq Students
          /\ \A d \in DOMAIN sink_calls[g] :
                sink_calls[g][d] \in [last : 0..MaxTime, recorded : {NoTime} \cup 0..MaxTime]
    /\ device \in BOOLEAN
    /\ device_calls \in Nat
    /\ trace \in Seq(Methods)
    /\ cam_result \in {"none", "returned", "frame", "None", "raised"}
    /\ result \in [name : {name_of(i) : i \in StudentIds} \cup {"Unknown", "none", "raised"},
                    distance : Nat, id : StudentIds \cup {NoId}]

\* The service right after FaceRecognitionService.__init__, no request running.
InitService ==
    /\ camera_started = FALSE
    /\ streaming = [k \in Kinds |-> FALSE]
    /\ pc = [g \in Loops |-> "idle"]
    /\ kind = [g \in Loops |-> "recognition"]
    /\ consecutive_errors = [g \in Loops |-> 0]
    /\ photo_pc = "idle"
    /\ reason = [g \in Loops |-> "none"]
    /\ stale = [g \in Loops |-> 0]
    /\ pending = [g \in Loops |-> FALSE]
    /\ streak = [g \in Loops |-> 0]
    /\ fails = [g \in Loops |-> 0]

\* The clock, the configuration and the attendance_records table when the
\* server starts with cooldown c, and the locals of generators not yet created.
InitGate(c) ==
    /\ clock = 0
    /\ cooldown_minutes = c
    /\ records = <<>>
    /\ recent_detections = [g \in Loops |-> EmptyMap]
    /\ left = [g \in Loops |-> 0]
    /\ detection = [g \in Loops |-> "none"]
    /\ offer_now = [g \in Loops |-> 0]
    /\ post_pc = "idle"
    /\ outcome = [g \in Loops |-> "none"]
    /\ recorded_at = [g \in Loops |-> EmptyMap]

\* The known set as __init__ loaded it from the students of list, in that
\* order, with threshold T configured; no reload and no lookup in progress.
InitStore(list, T) ==
    /\ known_encodings = [i \in 1..Len(list) |-> list[i].enc]
    /\ known_names = [i \in 1..Len(list) |-> name_of(list[i].id)]
    /\ known_ids = [i \in 1..Len(list) |-> list[i].id]
    /\ known_owner = [i \in 1..Len(list) |-> list[i].id]
    /\ threshold = T
    /\ reload_pc = "idle"
    /\ encodings_list = list
    /\ loaded = list
    /\ rf_pc = "idle"
    /\ embedding = 0
    /\ min_distance_idx = 0
    /\ min_distance = 0
    /\ rf_name = "none"
    /\ rf_owner = NoId
    /\ result = NoResult

\* The pipeline of a new service configured to detect every n-th frame.
InitPipe(n) ==
    /\ frame_counter = 0
    /\ process_every = n
    /\ last_faces = NoFaces
    /\ captured = 0
    /\ frame = [g \in Loops |-> 0]
    /\ detected = [g \in Loops |-> FALSE]
    /\ drawn = [g \in Loops |-> 0]
    /\ emitted = [g \in Loops |-> 0]
    /\ since = [g \in Loops |-> 0]
    /\ called = "never"

\* The configured camera, not started, and no method called yet.
InitCam ==
    /\ device = FALSE
    /\ device_calls = 0
    /\ trace = <<>>
    /\ cam_result = "none"

\* No frame encoded and nothing yielded yet.
InitWire ==
    /\ frame_bytes = [g \in Loops |-> <<>>]
    /\ unit = [g \in Loops |-> <<>>]

\* No request thread is in load_encodings_from_db; the session followed is
\* active (POST /sessions has created it) and no stream was given it yet.
InitMore ==
    /\ loads = [t \in Loaders |-> [pc |-> "idle", list |-> <<>>, i |-> 0]]
    /\ session = [status |-> "active", end_time |-> NoTime]
    /\ session_id = [g \in Loops |-> NoId]
    /\ record_status = <<>>
    /\ sink_calls = [g \in Loops |-> EmptyMap]
    /\ run = NotRun
    /\ settled = "no"

\* The rest of the service with no student enrolled and the default threshold
\* and stride.
InitExtras ==
    /\ InitStore(<<>>, RECOGNITION_THRESHOLD)
    /\ InitPipe(PROCESS_EVERY_N_FRAMES)
    /\ InitCam
    /\ InitWire
    /\ InitMore

\* The server started with the default configuration.
Init == InitService /\ InitGate(ATTENDANCE_COOLDOWN_MINUTES) /\ InitExtras

\* The server started with any of the configured cooldowns.
InitAny == InitService /\ (\E c \in 0..MaxCooldown : InitGate(c)) /\ InitExtras


(***************************************************************************)
(* start_camera / stop_camera                                              *)
(***************************************************************************)

\* start_camera(), first half: the test of camera_started; when the camera is
\* not started, picam2.start() is called and the thread sleeps 2 s before it
\* sets camera_started.  The position the caller goes to.
start_camera(warm, next) == IF camera_started THEN next ELSE warm

\* stop_camera(): picam2.stop() when started; camera_started is False after it.
stop_camera == camera_started' = FALSE

(***************************************************************************)
(* The streaming generators                                                *)
(***************************************************************************)

\* A loop left by a raise instead of a break: the generator is over at once,
\* without its cleanup, and the exception goes to the consumer.
Leave_Raises(g, why) ==
    /\ pc' = [pc EXCEPT ![g] = "done"]
    /\ reason' = [reason EXCEPT ![g] = why]
    /\ consecutive_errors' = [consecutive_errors EXCEPT ![g] = 0]

\* The loop is left at a break: the position after the loop, and why.  Nothing
\* after the loop reads consecutive_errors: the local is dropped here.
Leave(g, why) ==
    /\ pc' = [pc EXCEPT ![g] = "cleanup"]
    /\ reason' = [reason EXCEPT ![g] = why]
    /\ consecutive_errors' = [consecutive_errors EXCEPT ![g] = 0]

\* A read of the loop's flag (is_*_streaming() under _streaming_lock): the loop
\* goes on to `next` when the flag is true and breaks when it is false.
ReadFlag(g, next) ==
    /\ IF is_streaming(g)
         THEN pc' = [pc EXCEPT ![g] = next] /\ UNCHANGED <<reason, consecutive_errors>>
         ELSE Leave(g, "stop")
    /\ UNCHANGED <<camera_started, streaming, kind, photo_pc, stale>>

\* GET /recognition/stream or GET /enrollment/preview: the generator is created
\* and first resumed; it enters start_camera().
GenerateStart(g, k) ==
    /\ pc[g] \in {"idle", "done"}
    /\ kind' = [kind EXCEPT ![g] = k]
    /\ pc' = [pc EXCEPT ![g] = start_camera("warm", "setflag")]
    /\ reason' = [reason EXCEPT ![g] = "none"]
    /\ stale' = [stale EXCEPT ![g] = 0]
    /\ UNCHANGED <<camera_started, streaming, consecutive_errors, photo_pc>>

\* start_camera(), second half, after the warm-up sleep.
WarmUp(g) ==
    /\ pc[g] = "warm"
    /\ camera_started' = TRUE
    /\ pc' = [pc EXCEPT ![g] = "setflag"]
    /\ UNCHANGED <<streaming, kind, consecutive_errors, photo_pc, reason, stale>>

\* start_recognition_stream() / start_enrollment_stream(), then the locals.
\* The flag is true again: what was done while it was false is forgotten.
\* A prologue that does not set the flag.
StartStream_NoFlag(g) ==
    /\ pc[g] = "setflag"
    /\ consecutive_errors' = [consecutive_errors EXCEPT ![g] = 0]
    /\ pc' = [pc EXCEPT ![g] = "while"]
    /\ stale' = [h \in Loops |-> IF kind[h] = kind[g] THEN 0 ELSE stale[h]]
    /\ UNCHANGED <<camera_started, streaming, kind, photo_pc, reason>>

StartStream(g) ==
    /\ pc[g] = "setflag"
    /\ streaming' = [streaming EXCEPT ![kind[g]] = TRUE]
    /\ consecutive_errors' = [consecutive_errors EXCEPT ![g] = 0]
    /\ pc' = [pc EXCEPT ![g] = "while"]
    /\ stale' = [h \in Loops |-> IF kind[h] = kind[g] THEN 0 ELSE stale[h]]
    /\ UNCHANGED <<camera_started, kind, photo_pc, reason>>

\* while self.is_recognition_streaming(): / while self.is_enrollment_streaming():
WhileCheck(g) ==
    /\ pc[g] = "while"
    /\ ReadFlag(g, IF kind[g] = "recognition" THEN "chk1" ELSE "capture")

\* generate_frames: "Check flag at the start of each iteration".
Checkpoint1(g) ==
    /\ pc[g] = "chk1"
    /\ ReadFlag(g, "capture")

\* A reset that is left out.
OnSuccess_NoReset(g) == UNCHANGED consecutive_errors

\* "Reset error counter on success": consecutive_errors = 0
OnSuccess(g) == consecutive_errors' = [consecutive_errors EXCEPT ![g] = 0]

\* A pass whose exceptions are not caught: the generator dies with the
\* exception, which reaches the consumer.
Pass_Fatal(g, o) ==
    /\ stale' = [stale EXCEPT ![g] = IF is_streaming(g) THEN @ ELSE Min(@ + 1, 2)]
    /\ CASE o = "noframe" ->
              /\ pc' = [pc EXCEPT ![g] = "while"]
              /\ UNCHANGED <<streaming, consecutive_errors, reason>>
         [] o = "ok" ->
              /\ OnSuccess(g)
              /\ pc' = [pc EXCEPT ![g] =
                          IF kind[g] = "recognition" THEN "chk2" ELSE "yield"]
              /\ UNCHANGED <<streaming, reason>>
         [] o = "encodefail" ->
              /\ IF consecutive_errors[g] + 1 >= max_consecutive_errors
                   THEN Leave(g, "ceiling")
                   ELSE /\ consecutive_errors' = [consecutive_errors EXCEPT ![g] = @ + 1]
                        /\ pc' = [pc EXCEPT ![g] = "while"]
                        /\ UNCHANGED reason
              /\ UNCHANGED streaming
         [] o = "exception" ->
              /\ pc' = [pc EXCEPT ![g] = "done"]
              /\ UNCHANGED <<streaming, consecutive_errors, reason>>
    /\ UNCHANGED <<kind, photo_pc>>

\* The rest of one pass through the loop body once capture_frame() has called
\* picam2.capture_array(): the frame test, process_frame / app.get, imencode,
\* and the except Exception handler.
Pass(g, o) ==
    /\ stale' = [stale EXCEPT ![g] = IF is_streaming(g) THEN @ ELSE Min(@ + 1, 2)]
    /\ CASE o = "noframe" ->
              \* time.sleep(0.1); continue
              /\ pc' = [pc EXCEPT ![g] = "while"]
              /\ UNCHANGED <<streaming, consecutive_errors, reason>>
         [] o = "ok" ->
              \* frame_bytes = buffer.tobytes(), then on to the yield
              /\ OnSuccess(g)
              /\ pc' = [pc EXCEPT ![g] =
                          IF kind[g] = "recognition" THEN "chk2" ELSE "yield"]
              /\ UNCHANGED <<streaming, reason>>
         [] o = "encodefail" ->
              \* if not ret: count, break at the ceiling, else continue
              /\ IF consecutive_errors[g] + 1 >= max_consecutive_errors
                   THEN Leave(g, "ceiling")
                   ELSE /\ consecutive_errors' = [consecutive_errors EXCEPT ![g] = @ + 1]
                        /\ pc' = [pc EXCEPT ![g] = "while"]
                        /\ UNCHANGED reason
              /\ UNCHANGED streaming
         [] o = "exception" ->
              \* except Exception: count, stop and break at the ceiling, else retry
              /\ IF consecutive_errors[g] + 1 >= max_consecutive_errors
                   THEN /\ streaming' = [streaming EXCEPT ![kind[g]] = FALSE]
                        /\ Leave(g, "ceiling")
                   ELSE /\ consecutive_errors' = [consecutive_errors EXCEPT ![g] = @ + 1]
                        /\ pc' = [pc EXCEPT ![g] = "while"]
                        /\ UNCHANGED <<streaming, reason>>
    /\ UNCHANGED <<kind, photo_pc>>

\* frame = self.capture_frame(): with the camera started, capture_array() and
\* the rest of the pass; with the camera not started (another thread stopped
\* it), start_camera() first.
CaptureFrame(g) ==
    /\ pc[g] = "capture"
    /\ IF camera_started
         THEN /\ \E o \in Outcomes : Pass(g, o)
              /\ UNCHANGED camera_started
         ELSE /\ pc' = [pc EXCEPT ![g] = "capwarm"]
              /\ UNCHANGED <<camera_started, streaming, kind, consecutive_errors,
                             photo_pc, reason, stale>>

\* capture_frame() after the warm-up of its own start_camera().
CaptureWarm(g) ==
    /\ pc[g] = "capwarm"
    /\ camera_started' = TRUE
    /\ \E o \in Outcomes : Pass(g, o)

\* generate_frames without its flag check before the yield.
Checkpoint2_Missing(g) ==
    /\ pc[g] = "chk2"
    /\ pc' = [pc EXCEPT ![g] = "yield"]
    /\ UNCHANGED <<camera_started, streaming, kind, consecutive_errors, photo_pc,
                   reason, stale>>

\* generate_frames: "Check flag before yielding".
Checkpoint2(g) ==
    /\ pc[g] = "chk2"
    /\ ReadFlag(g, "yield")

\* yield (b'--frame...'): one output unit goes to the consumer and the
\* generator is suspended until the consumer asks for the next one.
Yield(g) ==
    /\ pc[g] = "yield"
    /\ pc' = [pc EXCEPT ![g] = "suspended"]
    /\ stale' = [stale EXCEPT ![g] = IF is_streaming(g) THEN @ ELSE Min(@ + 1, 2)]
    /\ UNCHANGED <<camera_started, streaming, kind, consecutive_errors, photo_pc,
                   reason>>

\* The consumer asks for the next output unit: the generator resumes after the
\* yield (generate_frames: at the flag check after the yield;
\* generate_enrollment_preview: sleeps and goes to the while test).
Resume(g) ==
    /\ pc[g] = "suspended"
    /\ pc' = [pc EXCEPT ![g] = IF kind[g] = "recognition" THEN "chk3" ELSE "while"]
    /\ UNCHANGED <<camera_started, streaming, kind, consecutive_errors, photo_pc,
                   reason, stale>>

\* An except GeneratorExit handler that breaks without stop_*_stream().
Disconnect_KeepsFlag(g) ==
    /\ pc[g] = "suspended"
    /\ Leave(g, "disconnect")
    /\ UNCHANGED <<camera_started, streaming, kind, photo_pc, stale>>

\* The consumer is gone: the server closes the generator, GeneratorExit is
\* raised at the yield; except GeneratorExit: stop_*_stream(); break.
Disconnect(g) ==
    /\ pc[g] = "suspended"
    /\ streaming' = [streaming EXCEPT ![kind[g]] = FALSE]
    /\ Leave(g, "disconnect")
    /\ UNCHANGED <<camera_started, kind, photo_pc, stale>>

\* generate_frames: "Check flag after yield", then time.sleep(0.033).
Checkpoint3(g) ==
    /\ pc[g] = "chk3"
    /\ ReadFlag(g, "while")

\* Cleanup on exit, first statement: stop_recognition_stream() /
\* stop_enrollment_stream().
Cleanup(g) ==
    /\ pc[g] = "cleanup"
    /\ streaming' = [streaming EXCEPT ![kind[g]] = FALSE]
    /\ pc' = [pc EXCEPT ![g] = "stopcam"]
    /\ UNCHANGED <<camera_started, kind, consecutive_errors, photo_pc, reason,
                   stale>>

\* Cleanup on exit, second statement: stop_camera(); the generator returns.
StopCamera(g) ==
    /\ pc[g] = "stopcam"
    /\ stop_camera
    /\ pc' = [pc EXCEPT ![g] = "done"]
    /\ stale' = [stale EXCEPT ![g] = 0]
    /\ UNCHANGED <<streaming, kind, consecutive_errors, photo_pc, reason>>

\* The steps a generator takes by itself, without its consumer.
LoopStep(g) ==
    \/ WarmUp(g) \/ StartStream(g) \/ WhileCheck(g) \/ Checkpoint1(g)
    \/ CaptureFrame(g) \/ CaptureWarm(g) \/ Checkpoint2(g) \/ Yield(g)
    \/ Checkpoint3(g) \/ Cleanup(g) \/ StopCamera(g)

(***************************************************************************)
(* Other request threads                                                   *)
(***************************************************************************)

\* POST /recognition/stop -> stop_recognition_stream(), POST /enrollment/stop
\* -> stop_enrollment_stream(): the flag is set false under _streaming_lock.
StopStreamRequest(k) ==
    /\ streaming' = [streaming EXCEPT ![k] = FALSE]
    /\ UNCHANGED <<camera_started, pc, kind, consecutive_errors, photo_pc, reason, stale>>

\* POST /enrollment/capture -> capture_enrollment_photo_with_quality():
\* self.start_camera()
PhotoStart ==
    /\ photo_pc = "idle"
    /\ photo_pc' = start_camera("warm", "capture")
    /\ UNCHANGED <<camera_started, streaming, pc, kind, consecutive_errors, hist>>

\* start_camera() after the warm-up sleep, on the photo request's thread.
PhotoWarm ==
    /\ photo_pc = "warm"
    /\ camera_started' = TRUE
    /\ photo_pc' = "capture"
    /\ UNCHANGED <<streaming, pc, kind, consecutive_errors, hist>>

\* frame = self.capture_frame() of the photo request (which starts the camera
\* again when a loop's cleanup stopped it meanwhile); the request then returns
\* and leaves the camera started.
PhotoCapture ==
    /\ photo_pc = "capture"
    /\ photo_pc' = start_camera("warm", "idle")
    /\ UNCHANGED <<camera_started, streaming, pc, kind, consecutive_errors, hist>>

(***************************************************************************)
(* History of failed passes (read by no action of the program)             *)
(***************************************************************************)

\* This step of g was a pass through the loop body that failed / succeeded.
PassFailed(g) ==
    /\ pc[g] \in {"capture", "capwarm"}
    /\ pc'[g] \in {"while", "cleanup"}

PassSucceeded(g) ==
    /\ pc[g] \in {"capture", "capwarm"}
    /\ pc'[g] \in {"chk2", "yield"}

SessionStarted(g) == pc[g] \in {"idle", "done"} /\ pc'[g] \notin {"idle", "done"}

Observe ==
    /\ streak' = [g \in Loops |->
                    IF SessionStarted(g) \/ PassSucceeded(g) THEN 0
                    ELSE IF PassFailed(g) THEN Min(streak[g] + 1, max_consecutive_errors)
                    ELSE streak[g]]
    /\ fails' = [g \in Loops |->
                    IF SessionStarted(g) THEN 0
                    ELSE IF PassFailed(g) THEN Min(fails[g] + 1, MaxFails)
                    ELSE fails[g]]

(***************************************************************************)
(* One pass of generate_frames, step by step: capture, process_frame, the   *)
(* attendance marking of each detection, imencode.  The attendance session  *)
(* is active and auto_mark_attendance is on.                                *)
(***************************************************************************)

\* What a step of the pass leaves alone besides pc.
rest == <<camera_started, streaming, kind, consecutive_errors, photo_pc, reason, stale>>

\* mark_attendance's query at time t: a row of the session and student with
\* timestamp >= utcnow() - timedelta(minutes=cooldown_minutes).
recent_record(t) ==
    \E i \in 1..Len(records) :
        records[i] * TickSeconds + cooldown_minutes * SecondsPerMinute >= t * TickSeconds

\* No local cooldown.
Cooling_Never(g, s, t) == FALSE

\* A local cooldown of three times the length.
Cooling_Long(g, s, t) ==
    /\ s \in DOMAIN recent_detections[g]
    /\ ~((t - recent_detections[g][s]) * TickSeconds > 3 * local_cooldown_seconds)

\* The negation of generate_frames' test before the sink call: the student has an
\* entry in the loop's map and it is not more than 30 s old at time t.
Cooling(g, s, t) ==
    /\ s \in DOMAIN recent_detections[g]
    /\ ~((t - recent_detections[g][s]) * TickSeconds > local_cooldown_seconds)

\* A gate that lets every detection through.
Offered_Any(d) == TRUE

\* if detection['name'] != "Unknown" and detection['student_db_id']:
Offered(d) == d # "Unknown"

\* The for loop is done with its detection and goes to the next one, or to
\* imencode after the last.
Iterated(g) ==
    /\ left' = [left EXCEPT ![g] = @ - 1]
    /\ pc' = [pc EXCEPT ![g] = IF left[g] = 1 THEN "encode" ELSE "offers"]
    /\ offer_now' = [offer_now EXCEPT ![g] = 0]

\* The prologue of generate_frames after start_camera(): the flag, a new empty
\* recent_detections and the error counter.
SessionStart_KeepsMap(g) ==
    /\ StartStream(g)
    /\ left' = [left EXCEPT ![g] = 0]
    /\ detection' = [detection EXCEPT ![g] = "none"]
    /\ outcome' = [outcome EXCEPT ![g] = "none"]
    /\ recorded_at' = [recorded_at EXCEPT ![g] = EmptyMap]
    /\ UNCHANGED <<clock, cooldown_minutes, records, recent_detections, offer_now, post_pc>>

SessionStart(g) ==
    /\ StartStream(g)
    /\ recent_detections' = [recent_detections EXCEPT ![g] = EmptyMap]
    /\ left' = [left EXCEPT ![g] = 0]
    /\ detection' = [detection EXCEPT ![g] = "none"]
    /\ outcome' = [outcome EXCEPT ![g] = "none"]
    /\ recorded_at' = [recorded_at EXCEPT ![g] = EmptyMap]
    /\ UNCHANGED <<clock, cooldown_minutes, records, offer_now, post_pc>>

\* frame = self.capture_frame() on the started camera: no frame (sleep and
\* continue), or a frame for process_frame.
CaptureOnly(g) ==
    /\ pc[g] = "capture"
    /\ camera_started
    /\ \/ Pass(g, "noframe")
       \/ /\ pc' = [pc EXCEPT ![g] = "process"]
          /\ UNCHANGED <<streaming, kind, consecutive_errors, photo_pc, reason, stale>>
    /\ UNCHANGED camera_started
    /\ UNCHANGED gate

\* annotated_frame, detections = self.process_frame(frame): app.get or
\* recognize_face raises (the exception leaves process_frame and reaches the
\* except Exception handler of generate_frames), or it returns the detections
\* of the frame.
ProcessFrame(g) ==
    /\ pc[g] = "process"
    /\ \/ /\ \E e \in {"DetectError", "MatchError"} :
                outcome' = [outcome EXCEPT ![g] = e]
          /\ Pass(g, "exception")
          /\ UNCHANGED left
       \/ /\ \E n \in 0..MaxFaces :
                /\ left' = [left EXCEPT ![g] = n]
                /\ pc' = [pc EXCEPT ![g] = IF n = 0 THEN "encode" ELSE "offers"]
          /\ outcome' = [outcome EXCEPT ![g] = "none"]
          /\ UNCHANGED <<streaming, kind, consecutive_errors, photo_pc, reason, stale>>
    /\ detection' = [detection EXCEPT ![g] = "none"]
    /\ UNCHANGED <<camera_started, clock, cooldown_minutes, records, recent_detections,
                   offer_now, post_pc, recorded_at>>

\* for detection in detections: the next detection, up to the sink call.
NextDetection(g) ==
    /\ pc[g] = "offers"
    /\ \E d \in Names :
          /\ detection' = [detection EXCEPT ![g] = d]
          /\ IF ~Offered(d)
               THEN Iterated(g) /\ outcome' = [outcome EXCEPT ![g] = "Unknown"]
               ELSE IF Cooling(g, d, clock)
                      THEN Iterated(g) /\ outcome' = [outcome EXCEPT ![g] = "InMemory"]
                      ELSE /\ pc' = [pc EXCEPT ![g] = "query"]
                           /\ offer_now' = [offer_now EXCEPT ![g] = clock]
                           /\ outcome' = [outcome EXCEPT ![g] = "Calling"]
                           /\ UNCHANGED left
    /\ UNCHANGED rest
    /\ UNCHANGED <<clock, cooldown_minutes, records, recent_detections, post_pc, recorded_at>>

\* A sink that stamps the cooldown entry when it returns None.
SinkQuery_Stamps(g) ==
    /\ pc[g] = "query"
    /\ IF recent_record(clock)
         THEN /\ Iterated(g)
              /\ outcome' = [outcome EXCEPT ![g] = "Null"]
              /\ recent_detections' = [recent_detections EXCEPT
                                          ![g] = Put(@, detection[g], offer_now[g])]
         ELSE /\ pc' = [pc EXCEPT ![g] = "insert"]
              /\ UNCHANGED <<left, offer_now, outcome, recent_detections>>
    /\ UNCHANGED rest
    /\ UNCHANGED <<clock, cooldown_minutes, records, detection, post_pc, recorded_at>>

\* DatabaseManager.mark_attendance, the query: a recent row -> return None
\* ("Attendance already marked recently").
SinkQuery(g) ==
    /\ pc[g] = "query"
    /\ IF recent_record(clock)
         THEN /\ Iterated(g)
              /\ outcome' = [outcome EXCEPT ![g] = "Null"]
         ELSE /\ pc' = [pc EXCEPT ![g] = "insert"]
              /\ UNCHANGED <<left, offer_now, outcome>>
    /\ UNCHANGED rest
    /\ UNCHANGED <<clock, cooldown_minutes, records, recent_detections, detection, post_pc,
                   recorded_at>>

\* DatabaseManager.mark_attendance, db.session.add / commit: the row gets
\* timestamp utcnow(); back in generate_frames, recent_detections[id] = now.
SinkInsert(g) ==
    /\ pc[g] = "insert"
    /\ Len(records) < MaxRecords
    /\ records' = Append(records, clock)
    /\ recent_detections' = [recent_detections EXCEPT
                                ![g] = Put(@, detection[g], offer_now[g])]
    /\ recorded_at' = [recorded_at EXCEPT ![g] = Put(@, detection[g], clock)]
    /\ outcome' = [outcome EXCEPT ![g] = "Recorded"]
    /\ Iterated(g)
    /\ UNCHANGED rest
    /\ UNCHANGED <<clock, cooldown_minutes, detection, post_pc>>

\* A sink error that is not caught around the call.
SinkRaises_Propagates(g) ==
    /\ pc[g] \in {"query", "insert"}
    /\ outcome' = [outcome EXCEPT ![g] = "Raised"]
    /\ Pass(g, "exception")
    /\ left' = [left EXCEPT ![g] = 0]
    /\ offer_now' = [offer_now EXCEPT ![g] = 0]
    /\ UNCHANGED <<camera_started, clock, cooldown_minutes, records, recent_detections,
                   detection, post_pc, recorded_at>>

\* DatabaseManager.mark_attendance raises (query or commit): except Exception
\* as db_error prints it, "Continue streaming even if DB fails".
SinkRaises(g) ==
    /\ pc[g] \in {"query", "insert"}
    /\ outcome' = [outcome EXCEPT ![g] = "Raised"]
    /\ Iterated(g)
    /\ UNCHANGED rest
    /\ UNCHANGED <<clock, cooldown_minutes, records, recent_detections, detection, post_pc,
                   recorded_at>>

\* cv2.imencode and what follows it: not ret, an exception, or frame_bytes and
\* the counter reset.
Encode(g) ==
    /\ pc[g] = "encode"
    /\ \E o \in {"ok", "encodefail", "exception"} : Pass(g, o)
    /\ detection' = [detection EXCEPT ![g] = "none"]
    /\ UNCHANGED <<camera_started, clock, cooldown_minutes, records, recent_detections,
                   left, offer_now, post_pc, outcome, recorded_at>>

\* Time passes.
Tick ==
    /\ clock < MaxTime
    /\ clock' = clock + 1
    /\ UNCHANGED <<camera_started, streaming, pc, kind, consecutive_errors, photo_pc, hist>>
    /\ UNCHANGED <<cooldown_minutes, records, recent_detections, left, detection,
                   offer_now, post_pc, outcome, recorded_at>>

\* POST /attendance -> DatabaseManager.mark_attendance, the query; with a recent
\* row the request answers 400 and nothing changes.
PostQuery ==
    /\ post_pc = "idle"
    /\ ~recent_record(clock)
    /\ post_pc' = "insert"
    /\ UNCHANGED <<camera_started, streaming, pc, kind, consecutive_errors, photo_pc, hist>>
    /\ UNCHANGED <<clock, cooldown_minutes, records, recent_detections, left, detection,
                   offer_now, outcome, recorded_at>>

\* POST /attendance -> DatabaseManager.mark_attendance, db.session.add / commit.
PostInsert ==
    /\ post_pc = "insert"
    /\ Len(records) < MaxRecords
    /\ records' = Append(records, clock)
    /\ post_pc' = "idle"
    /\ UNCHANGED <<camera_started, streaming, pc, kind, consecutive_errors, photo_pc, hist>>
    /\ UNCHANGED <<clock, cooldown_minutes, recent_detections, left, detection,
                   offer_now, outcome, recorded_at>>

(***************************************************************************)
(* The known set and the matcher                                           *)
(***************************************************************************)

\* np.linalg.norm(x - embedding) of one known encoding.
Distance(x, e) == IF x >= e THEN x - e ELSE e - x

\* distances = np.linalg.norm(np.array(self.known_encodings) - embedding, axis=1)
Distances(encs, e) == [i \in 1..Len(encs) |-> Distance(encs[i], e)]

\* An argmin that returns the last index of the minimum.
argmin_Last(d) ==
    CHOOSE i \in 1..Len(d) :
        /\ \A j \in 1..Len(d) : d[i] <= d[j]
        /\ \A j \in 1..Len(d) : d[j] = d[i] => j <= i

\* np.argmin(distances): the first index of the minimum.
argmin(d) ==
    CHOOSE i \in 1..Len(d) :
        /\ \A j \in 1..Len(d) : d[i] <= d[j]
        /\ \A j \in 1..Len(d) : d[j] = d[i] => i <= j

\* A threshold test that accepts a distance equal to the threshold.
BelowThreshold_Inclusive(d, T) == d <= T

\* if min_distance < self.config.RECOGNITION_THRESHOLD
BelowThreshold(d, T) == d < T

\* The locals of a recognize_face call that has returned.
RfReturn(r) ==
    /\ result' = r
    /\ rf_pc' = "idle"
    /\ min_distance_idx' = 0
    /\ min_distance' = 0
    /\ rf_name' = "none"

\* recognize_face, line 156: the length test of self.known_encodings.
RfStart(e) ==
    /\ rf_pc = "idle"
    /\ embedding' = e
    /\ rf_owner' = NoId
    /\ IF Len(known_encodings) = 0
         THEN RfReturn(EmptyStoreResult)
         ELSE /\ rf_pc' = "dist"
              /\ result' = NoResult
              /\ UNCHANGED <<min_distance_idx, min_distance, rf_name>>
    /\ UNCHANGED <<known_encodings, known_names, known_ids, threshold, reload_pc,
                   encodings_list, loaded, known_owner>>

\* recognize_face, lines 160-167: self.known_encodings is read again, the
\* distances, their argmin and the threshold test.  On a list that has become
\* empty the norm along axis 1 raises.
RfDistances ==
    /\ rf_pc = "dist"
    /\ IF Len(known_encodings) = 0
         THEN RfReturn(RaisedResult) /\ UNCHANGED rf_owner
         ELSE LET d == Distances(known_encodings, embedding)
                  i == argmin(d)
              IN  /\ rf_owner' = known_owner[i]
                  /\ IF BelowThreshold(d[i], threshold)
                       THEN /\ min_distance_idx' = i
                            /\ min_distance' = d[i]
                            /\ rf_pc' = "name"
                            /\ UNCHANGED <<result, rf_name>>
                       ELSE RfReturn([name |-> "Unknown", distance |-> d[i], id |-> NoId])
    /\ UNCHANGED <<known_encodings, known_names, known_ids, threshold, reload_pc,
                   encodings_list, loaded, known_owner, embedding>>

\* recognize_face, line 169: self.known_names[min_distance_idx]; IndexError on
\* a list that is shorter.
RfName ==
    /\ rf_pc = "name"
    /\ IF min_distance_idx > Len(known_names)
         THEN RfReturn(RaisedResult)
         ELSE /\ rf_name' = known_names[min_distance_idx]
              /\ rf_pc' = "id"
              /\ UNCHANGED <<result, min_distance_idx, min_distance>>
    /\ UNCHANGED <<known_encodings, known_names, known_ids, threshold, reload_pc,
                   encodings_list, loaded, known_owner, embedding, rf_owner>>

\* recognize_face, lines 168-172: self.known_ids[min_distance_idx] and the return.
RfId ==
    /\ rf_pc = "id"
    /\ IF min_distance_idx > Len(known_ids)
         THEN RfReturn(RaisedResult)
         ELSE RfReturn([name |-> rf_name, distance |-> min_distance,
                        id |-> known_ids[min_distance_idx]])
    /\ UNCHANGED <<known_encodings, known_names, known_ids, threshold, reload_pc,
                   encodings_list, loaded, known_owner, embedding, rf_owner>>

\* load_encodings_from_db, line 83: the query.
LoadFetch(list) ==
    /\ reload_pc = "idle"
    /\ encodings_list' = list
    /\ reload_pc' = "clear_e"
    /\ UNCHANGED <<known_encodings, known_names, known_ids, threshold, rf_pc, embedding,
                   min_distance_idx, min_distance, rf_name, result, loaded, known_owner,
                   rf_owner>>

\* load_encodings_from_db, line 85: self.known_encodings = []
LoadClearEncodings ==
    /\ reload_pc = "clear_e"
    /\ known_encodings' = <<>>
    /\ known_owner' = <<>>
    /\ reload_pc' = "clear_n"
    /\ UNCHANGED <<known_names, known_ids, threshold, encodings_list, rf_pc, embedding,
                   min_distance_idx, min_distance, rf_name, result, loaded, rf_owner>>

\* load_encodings_from_db, line 86: self.known_names = []
LoadClearNames ==
    /\ reload_pc = "clear_n"
    /\ known_names' = <<>>
    /\ reload_pc' = "clear_i"
    /\ UNCHANGED <<known_encodings, known_ids, threshold, encodings_list, rf_pc, embedding,
                   min_distance_idx, min_distance, rf_name, result, loaded, known_owner,
                   rf_owner>>

\* load_encodings_from_db, line 87: self.known_ids = [], and the loop of line
\* 89 entered or, with no row, over.
LoadClearIds ==
    /\ reload_pc = "clear_i"
    /\ known_ids' = <<>>
    /\ IF Len(encodings_list) = 0
         THEN reload_pc' = "idle" /\ loaded' = encodings_list
         ELSE reload_pc' = "app_e" /\ UNCHANGED loaded
    /\ UNCHANGED <<known_encodings, known_names, threshold, encodings_list, rf_pc,
                   embedding, min_distance_idx, min_distance, rf_name, result,
                   known_owner, rf_owner>>

\* load_encodings_from_db, line 90: self.known_encodings.append(encoding)
LoadAppendEncoding ==
    /\ reload_pc = "app_e"
    /\ LET row == encodings_list[Len(known_ids) + 1]
       IN  /\ known_encodings' = Append(known_encodings, row.enc)
           /\ known_owner' = Append(known_owner, row.id)
    /\ reload_pc' = "app_n"
    /\ UNCHANGED <<known_names, known_ids, threshold, encodings_list, rf_pc, embedding,
                   min_distance_idx, min_distance, rf_name, result, loaded, rf_owner>>

\* load_encodings_from_db, line 91: self.known_names.append(name)
LoadAppendName ==
    /\ reload_pc = "app_n"
    /\ known_names' = Append(known_names, name_of(encodings_list[Len(known_ids) + 1].id))
    /\ reload_pc' = "app_i"
    /\ UNCHANGED <<known_encodings, known_ids, threshold, encodings_list, rf_pc, embedding,
                   min_distance_idx, min_distance, rf_name, result, loaded, known_owner,
                   rf_owner>>

\* load_encodings_from_db, line 92: self.known_ids.append(student_id), and the
\* loop of line 89 continued or over.
LoadAppendId ==
    /\ reload_pc = "app_i"
    /\ known_ids' = Append(known_ids, encodings_list[Len(known_ids) + 1].id)
    /\ IF Len(known_ids) + 1 = Len(encodings_list)
         THEN reload_pc' = "idle" /\ loaded' = encodings_list
         ELSE reload_pc' = "app_e" /\ UNCHANGED loaded
    /\ UNCHANGED <<known_encodings, known_names, threshold, encodings_list, rf_pc,
                   embedding, min_distance_idx, min_distance, rf_name, result,
                   known_owner, rf_owner>>

(***************************************************************************)
(* The frame pipeline                                                      *)
(***************************************************************************)

\* A stride test made on the counter of after the increment.
Detects_AfterIncrement(c, n) == (c + 1) % n = 0

\* if detect_faces and self.frame_counter % self.process_every == 0
Detects(c, n) == c % n = 0

\* A counter that goes up by two.
Counted_Twice(c) == c + 2

\* self.frame_counter += 1
Counted(c) == c + 1

\* A loop over the faces read before line 212 stored the new ones.
Drawn_Before(before, after) == before.frame

\* for face in self.last_faces: the faces drawn are those the attribute holds
\* after line 212; the frame they are of.
Drawn(before, after) == after.frame

\* process_frame, lines 211-217, of the call that ProcessFrame(g) makes on the
\* frame g holds: app.get on a call that Detects (it raises, or returns the
\* faces of the frame), the increment, and the faces the for loop goes over (one
\* of them is where recognize_face raises).
Pipeline(g) ==
    LET detects == Detects(frame_counter, process_every)
    IN  /\ called' = IF outcome'[g] = "DetectError" /\ called # "counted"
                        THEN "raised" ELSE "counted"
        /\ detected' = [detected EXCEPT ![g] = detects]
        /\ IF outcome'[g] = "DetectError"
             THEN /\ detects
                  /\ UNCHANGED <<frame_counter, last_faces, drawn>>
             ELSE /\ frame_counter' = Counted(frame_counter)
                  /\ IF detects
                       THEN \E n \in 0..MaxFaces : last_faces' = [frame |-> frame[g], n |-> n]
                       ELSE UNCHANGED last_faces
                  /\ drawn' = [drawn EXCEPT ![g] = Drawn(last_faces, last_faces')]
                  /\ IF outcome'[g] = "MatchError"
                       THEN last_faces'.n >= 1
                       ELSE left'[g] = last_faces'.n
        /\ UNCHANGED <<process_every, captured, frame, emitted, since>>

\* annotated_frame, detections = self.process_frame(frame)
FrameProcess(g) == ProcessFrame(g) /\ Pipeline(g)

\* frame = self.capture_frame(): the frame the camera delivers, if it does, is
\* the next in capture order.
FrameCapture(g) ==
    /\ CaptureOnly(g)
    /\ IF pc'[g] = "process"
         THEN /\ captured < MaxFrames
              /\ captured' = captured + 1
              /\ frame' = [frame EXCEPT ![g] = captured + 1]
         ELSE UNCHANGED <<captured, frame>>
    /\ UNCHANGED <<frame_counter, process_every, last_faces, detected, drawn, emitted,
                   since, called>>

\* yield (b'--frame...') of the frame g holds.
FrameYield(g) ==
    /\ Yield(g)
    /\ emitted' = [emitted EXCEPT ![g] = frame[g]]
    /\ UNCHANGED gate
    /\ UNCHANGED <<frame_counter, process_every, last_faces, captured, frame, detected,
                   drawn, since, called>>

\* start_recognition_stream() and the rest of lines 276-283: a session that
\* has yielded nothing yet.
FrameSessionStart(g) ==
    /\ SessionStart(g)
    /\ emitted' = [emitted EXCEPT ![g] = 0]
    /\ since' = [since EXCEPT ![g] = captured]
    /\ UNCHANGED <<frame_counter, process_every, last_faces, captured, frame, detected,
                   drawn, called>>

(***************************************************************************)
(* The camera methods, called one after the other                          *)
(***************************************************************************)

\* A start_camera that starts the device whatever the flag says.
NeedsStart_Always(started) == TRUE

\* start_camera: if not self.camera_started
NeedsStart(started) == ~started

\* stop_camera: if self.camera_started
NeedsStop(started) == started

\* One more method called, and how it ended.
Traced(method, how) ==
    /\ Len(trace) < MaxCalls
    /\ trace' = Append(trace, method)
    /\ cam_result' = how

\* picam2.start() returns and, after the sleep, the flag is set; or it raises
\* and the exception leaves start_camera.  ok tells which.
DeviceStart(ok) ==
    /\ device' = (device \/ ok)
    /\ camera_started' = (camera_started \/ ok)

\* start_camera()
CallStartCamera ==
    IF NeedsStart(camera_started)
      THEN \E ok \in BOOLEAN :
              /\ DeviceStart(ok)
              /\ device_calls' = device_calls + 1
              /\ Traced("start_camera", IF ok THEN "returned" ELSE "raised")
      ELSE /\ Traced("start_camera", "returned")
           /\ UNCHANGED <<camera_started, device, device_calls>>

\* stop_camera(): picam2.stop() returns and the flag is cleared, or it raises
\* and the exception leaves stop_camera.
CallStopCamera ==
    IF NeedsStop(camera_started)
      THEN \E ok \in BOOLEAN :
              /\ device' = (device /\ ~ok)
              /\ camera_started' = (camera_started /\ ~ok)
              /\ device_calls' = device_calls + 1
              /\ Traced("stop_camera", IF ok THEN "returned" ELSE "raised")
      ELSE /\ Traced("stop_camera", "returned")
           /\ UNCHANGED <<camera_started, device, device_calls>>

\* capture_frame(): start_camera() when the flag is not set (lines 178-179,
\* before the try), then inside the try capture_array(), which returns a frame,
\* returns None or raises; the except clause returns None.
CallCaptureFrame ==
    IF ~camera_started
      THEN \E ok \in BOOLEAN :
              /\ DeviceStart(ok)
              /\ IF ok
                   THEN /\ device_calls' = device_calls + 2
                        /\ \E how \in {"frame", "None"} : Traced("capture_frame", how)
                   ELSE /\ device_calls' = device_calls + 1
                        /\ Traced("capture_frame", "raised")
      ELSE /\ device_calls' = device_calls + 1
           /\ \E how \in {"frame", "None"} : Traced("capture_frame", how)
           /\ UNCHANGED <<camera_started, device>>

(***************************************************************************)
(* The bytes of an output unit                                             *)
(***************************************************************************)

\* b'--frame\r\n' and b'Content-Type: image/jpeg\r\n\r\n', byte by byte.
BoundaryLine == <<45, 45, 102, 114, 97, 109, 101, 13, 10>>
ContentTypeLines ==
    <<67, 111, 110, 116, 101, 110, 116, 45, 84, 121, 112, 101, 58, 32,
      105, 109, 97, 103, 101, 47, 106, 112, 101, 103, 13, 10, 13, 10>>

\* An output unit without the line end after the frame.
Multipart_NoLineEnd(bytes) == BoundaryLine \o ContentTypeLines \o bytes

\* (b'--frame\r\n' b'Content-Type: image/jpeg\r\n\r\n' + frame_bytes + b'\r\n')
Multipart(bytes) == BoundaryLine \o ContentTypeLines \o bytes \o <<13, 10>>

\* capture_frame() and the pass after it; a pass that gets to the yield has
\* encoded the frame: ret, buffer = cv2.imencode(...); frame_bytes = buffer.tobytes()
WireCapture(g) ==
    /\ CaptureFrame(g)
    /\ IF pc'[g] \in {"chk2", "yield"}
         THEN \E j \in Jpegs : frame_bytes' = [frame_bytes EXCEPT ![g] = j]
         ELSE UNCHANGED frame_bytes
    /\ UNCHANGED unit

\* yield (b'--frame...' + frame_bytes + b'\r\n')
WireYield(g) ==
    /\ Yield(g)
    /\ unit' = [unit EXCEPT ![g] = Multipart(frame_bytes[g])]
    /\ UNCHANGED frame_bytes

(***************************************************************************)
(* load_encodings_from_db on two request threads                           *)
(***************************************************************************)

\* Thread t moves on in its load_encodings_from_db call.
At(t, position, index) == loads' = [loads EXCEPT ![t].pc = position, ![t].i = index]

\* load_encodings_from_db, line 83: the query.
ReloadFetch(t, list) ==
    /\ loads[t].pc = "idle"
    /\ loads' = [loads EXCEPT ![t] = [pc |-> "clear_e", list |-> list, i |-> 0]]
    /\ UNCHANGED <<known_encodings, known_names, known_ids, known_owner, loaded>>

\* load_encodings_from_db, line 85: self.known_encodings = []
ReloadClearEncodings(t) ==
    /\ loads[t].pc = "clear_e"
    /\ known_encodings' = <<>>
    /\ known_owner' = <<>>
    /\ At(t, "clear_n", 0)
    /\ UNCHANGED <<known_names, known_ids, loaded>>

\* load_encodings_from_db, line 86: self.known_names = []
ReloadClearNames(t) ==
    /\ loads[t].pc = "clear_n"
    /\ known_names' = <<>>
    /\ At(t, "clear_i", 0)
    /\ UNCHANGED <<known_encodings, known_ids, known_owner, loaded>>

\* load_encodings_from_db, line 87: self.known_ids = [], and the for loop of
\* line 89 entered at the first row or, with no row, over.
ReloadClearIds(t) ==
    /\ loads[t].pc = "clear_i"
    /\ known_ids' = <<>>
    /\ IF Len(loads[t].list) = 0
         THEN At(t, "idle", 0) /\ loaded' = loads[t].list
         ELSE At(t, "app_e", 1) /\ UNCHANGED loaded
    /\ UNCHANGED <<known_encodings, known_names, known_owner>>

\* load_encodings_from_db, line 90: self.known_encodings.append(encoding), on
\* the list the attribute is bound to now.
ReloadAppendEncoding(t) ==
    /\ loads[t].pc = "app_e"
    /\ Len(known_encodings) < 2 * MaxKnown
    /\ known_encodings' = Append(known_encodings, loads[t].list[loads[t].i].enc)
    /\ known_owner' = Append(known_owner, loads[t].list[loads[t].i].id)
    /\ At(t, "app_n", loads[t].i)
    /\ UNCHANGED <<known_names, known_ids, loaded>>

\* load_encodings_from_db, line 91: self.known_names.append(name)
ReloadAppendName(t) ==
    /\ loads[t].pc = "app_n"
    /\ known_names' = Append(known_names, name_of(loads[t].list[loads[t].i].id))
    /\ At(t, "app_i", loads[t].i)
    /\ UNCHANGED <<known_encodings, known_ids, known_owner, loaded>>

\* load_encodings_from_db, line 92: self.known_ids.append(student_id), and the
\* for loop goes to its next row or is over.
ReloadAppendId(t) ==
    /\ loads[t].pc = "app_i"
    /\ known_ids' = Append(known_ids, loads[t].list[loads[t].i].id)
    /\ IF loads[t].i = Len(loads[t].list)
         THEN At(t, "idle", 0) /\ loaded' = loads[t].list
         ELSE At(t, "app_e", loads[t].i + 1) /\ UNCHANGED loaded
    /\ UNCHANGED <<known_encodings, known_names, known_owner>>

(***************************************************************************)
(* The attendance session a stream marks for                               *)
(***************************************************************************)

\* video_stream, lines 612-613, and the generate_frames call it makes: the id
\* of the active session, or None, is read once and kept by the generator.
SessionGenerate(g) ==
    /\ GenerateStart(g, "recognition")
    /\ session_id' = [session_id EXCEPT
                         ![g] = IF session.status = "active" THEN TheSession ELSE NoId]
    /\ UNCHANGED <<session, record_status, sink_calls>>

\* generate_frames, line 304: without a session_id the detections of the frame
\* are not gone over.
SessionProcess(g) ==
    /\ ProcessFrame(g)
    /\ session_id[g] = NoId => pc'[g] # "offers"
    /\ UNCHANGED held
    /\ UNCHANGED sink_calls

\* generate_frames, lines 275-283: a new session, no sink call made in it yet.
SessionBegin(g) ==
    /\ SessionStart(g)
    /\ sink_calls' = [sink_calls EXCEPT ![g] = EmptyMap]
    /\ UNCHANGED held

\* generate_frames, lines 306-320: the for loop up to the call of
\* mark_attendance, which is noted with the now read at line 313.
SessionDetection(g) ==
    /\ NextDetection(g)
    /\ IF pc'[g] = "query"
         THEN sink_calls' = [sink_calls EXCEPT ![g] =
                 Put(@, detection'[g],
                     [last |-> clock,
                      recorded |-> IF detection'[g] \in DOMAIN @
                                     THEN @[detection'[g]].recorded ELSE NoTime])]
         ELSE UNCHANGED sink_calls
    /\ UNCHANGED held

\* DatabaseManager.mark_attendance, lines 190-202: the row is created for the
\* session_id given, whatever the status of that session.
SessionInsert(g) ==
    /\ SinkInsert(g)
    /\ record_status' = Append(record_status, session.status)
    /\ sink_calls' = [sink_calls EXCEPT ![g][detection[g]] =
                                      [last |-> @.last, recorded |-> @.last]]
    /\ UNCHANGED <<session, session_id>>

\* POST /sessions/<id>/end -> DatabaseManager.end_session.
EndSession ==
    /\ session' = [status |-> "completed", end_time |-> clock]
    /\ UNCHANGED <<camera_started, streaming, pc, kind, consecutive_errors, photo_pc, hist>>
    /\ UNCHANGED gate
    /\ UNCHANGED <<session_id, record_status, sink_calls>>

(***************************************************************************)
(* run_recognition_loop                                                    *)
(***************************************************************************)

\* An exception leaves the while loop of run_recognition_loop: there is no
\* except clause, only the finally of line 455.
RunRaise(cause) == run' = [run EXCEPT !.pc = "finally", !.why = cause, !.left = 0]

\* The script, lines 706-723: run_recognition_loop for the active session, or
\* without one; self.start_camera() at line 411.
RunStart ==
    /\ run.pc = "idle"
    /\ \E sid \in {NoId, TheSession} :
          run' = [NotRun EXCEPT !.pc = start_camera("warm", "capture"), !.session_id = sid]
    /\ UNCHANGED <<camera_started, clock, records>>

\* start_camera on a stopped camera.
RunWarm ==
    /\ run.pc = "warm"
    /\ camera_started' = TRUE
    /\ run' = [run EXCEPT !.pc = "capture"]
    /\ UNCHANGED <<clock, records>>

\* Line 421, frame = self.capture_frame(): a frame, or None.
RunCapture ==
    /\ run.pc = "capture"
    /\ camera_started
    /\ \E f \in {"frame", "None"} : run' = [run EXCEPT !.pc = "process", !.frame = f]
    /\ UNCHANGED <<camera_started, clock, records>>

\* Line 424, self.process_frame(frame): on None it raises (app.get(None), or
\* frame.shape at line 254); on a frame app.get or recognize_face raises, or
\* the detections are returned and, with a session_id, gone over.
RunProcess ==
    /\ run.pc = "process"
    /\ IF run.frame = "None"
         THEN RunRaise("capture")
         ELSE \/ RunRaise("process")
              \/ \E n \in 0..MaxFaces :
                    run' = [run EXCEPT
                              !.pc = IF run.session_id # NoId /\ n > 0
                                       THEN "offers" ELSE "sleep",
                              !.left = IF run.session_id # NoId THEN n ELSE 0]
    /\ UNCHANGED <<camera_started, clock, records>>

\* The for loop has done with a detection.
RunIterated(stamp) ==
    run' = [run EXCEPT !.left = @ - 1,
                       !.pc = IF run.left = 1 THEN "sleep" ELSE "offers",
                       !.recent = stamp]

\* Lines 428-448, one detection: Unknown, or held back by recent_detections,
\* or handed to DatabaseManager.mark_attendance, which raises, returns None
\* for a recent row, or inserts a row and returns it.
RunOffer ==
    /\ run.pc = "offers"
    /\ \E d \in Names :
          IF ~Offered(d) \/ (run.recent # NoTime
                                /\ ~((clock - run.recent) * TickSeconds
                                        > local_cooldown_seconds))
            THEN RunIterated(run.recent) /\ UNCHANGED records
            ELSE \/ RunRaise("sink") /\ UNCHANGED records
                 \/ /\ recent_record(clock)
                    /\ RunIterated(run.recent)
                    /\ UNCHANGED records
                 \/ /\ ~recent_record(clock)
                    /\ Len(records) < MaxRecords
                    /\ records' = Append(records, clock)
                    /\ RunIterated(clock)
    /\ UNCHANGED <<camera_started, clock>>

\* Line 452, time.sleep(0.03), during which the script may be interrupted
\* (KeyboardInterrupt); otherwise the next pass.
RunSleep ==
    /\ run.pc = "sleep"
    /\ \/ run' = [run EXCEPT !.pc = "capture", !.frame = "none"]
       \/ RunRaise("interrupt")
    /\ UNCHANGED <<camera_started, clock, records>>

\* Lines 454-455, finally: self.stop_camera(); the exception goes on to the
\* caller.
RunFinally ==
    /\ run.pc = "finally"
    /\ camera_started' = FALSE
    /\ run' = [run EXCEPT !.pc = "ended"]
    /\ UNCHANGED <<clock, records>>

\* Time passes beside the loop.
RunTick ==
    /\ clock < MaxTime
    /\ clock' = clock + 1
    /\ UNCHANGED <<camera_started, records, run>>

(***************************************************************************)
(* Specifications                                                          *)
(***************************************************************************)

\* A step of the program with the histories of obs left alone.
Quiet(A) == A /\ UNCHANGED obs /\ UNCHANGED gate /\ UNCHANGED extras

\* The streaming requests, their consumers and the stop requests, in any
\* interleaving.
Next ==
    \/ \E g \in Loops, k \in Kinds : Quiet(GenerateStart(g, k))
    \/ \E g \in Loops : Quiet(WarmUp(g))
    \/ \E g \in Loops : Quiet(StartStream(g))
    \/ \E g \in Loops : Quiet(WhileCheck(g))
    \/ \E g \in Loops : Quiet(Checkpoint1(g))
    \/ \E g \in Loops : Quiet(CaptureFrame(g))
    \/ \E g \in Loops : Quiet(CaptureWarm(g))
    \/ \E g \in Loops : Quiet(Checkpoint2(g))
    \/ \E g \in Loops : Quiet(Yield(g))
    \/ \E g \in Loops : Quiet(Resume(g))
    \/ \E g \in Loops : Quiet(Disconnect(g))
    \/ \E g \in Loops : Quiet(Checkpoint3(g))
    \/ \E g \in Loops : Quiet(Cleanup(g))
    \/ \E g \in Loops : Quiet(StopCamera(g))
    \/ \E k \in Kinds : Quiet(StopStreamRequest(k))

Spec == Init /\ [][Next]_vars

\* Every request thread of the server: the same with the photo-capture request,
\* and with the history of stop requests: pending[g] from a stop request issued
\* while g is running until g returns.
Heard(A) ==
    /\ A
    /\ pending' = [g \in Loops |-> pending[g] /\ pc'[g] \notin {"idle", "done"}]
    /\ UNCHANGED <<streak, fails>>
    /\ UNCHANGED gate
    /\ UNCHANGED extras

HeardStop(k) ==
    /\ StopStreamRequest(k)
    /\ pending' = [g \in Loops |-> pending[g] \/ (kind[g] = k /\ Running(g))]
    /\ UNCHANGED <<streak, fails>>
    /\ UNCHANGED gate
    /\ UNCHANGED extras

NextAll ==
    \/ \E g \in Loops, k \in Kinds : Heard(GenerateStart(g, k))
    \/ \E g \in Loops : Heard(WarmUp(g))
    \/ \E g \in Loops : Heard(StartStream(g))
    \/ \E g \in Loops : Heard(WhileCheck(g))
    \/ \E g \in Loops : Heard(Checkpoint1(g))
    \/ \E g \in Loops : Heard(CaptureFrame(g))
    \/ \E g \in Loops : Heard(CaptureWarm(g))
    \/ \E g \in Loops : Heard(Checkpoint2(g))
    \/ \E g \in Loops : Heard(Yield(g))
    \/ \E g \in Loops : Heard(Resume(g))
    \/ \E g \in Loops : Heard(Disconnect(g))
    \/ \E g \in Loops : Heard(Checkpoint3(g))
    \/ \E g \in Loops : Heard(Cleanup(g))
    \/ \E g \in Loops : Heard(StopCamera(g))
    \/ \E k \in Kinds : HeardStop(k)
    \/ Heard(PhotoStart)
    \/ Heard(PhotoWarm)
    \/ Heard(PhotoCapture)

SpecAll == Init /\ [][NextAll]_vars

\* One streaming request at a time on the service, its consumer and the stop
\* requests, with the history of its failed passes.  No other thread stops the
\* camera under the loop, so capture_frame() never has to start it again.
Seen(A) == A /\ Observe /\ UNCHANGED pending /\ UNCHANGED gate /\ UNCHANGED extras

NextOne ==
    \/ \E k \in Kinds : Seen(GenerateStart(1, k))
    \/ Seen(WarmUp(1))
    \/ Seen(StartStream(1))
    \/ Seen(WhileCheck(1))
    \/ Seen(Checkpoint1(1))
    \/ Seen(CaptureFrame(1))
    \/ Seen(Checkpoint2(1))
    \/ Seen(Yield(1))
    \/ Seen(Resume(1))
    \/ Seen(Disconnect(1))
    \/ Seen(Checkpoint3(1))
    \/ Seen(Cleanup(1))
    \/ Seen(StopCamera(1))
    \/ \E k \in Kinds : Seen(StopStreamRequest(k))

SpecOne == Init /\ [][NextOne]_vars

\* One recognition request at a time with its pass taken step by step, its
\* consumer, the stop requests, POST /attendance requests and the clock, under
\* any configured cooldown.
Timed(A) == A /\ UNCHANGED obs /\ UNCHANGED extras

NextGate ==
    \/ Quiet(GenerateStart(1, "recognition"))
    \/ Quiet(WarmUp(1))
    \/ Timed(SessionStart(1))
    \/ Quiet(WhileCheck(1))
    \/ Quiet(Checkpoint1(1))
    \/ Timed(CaptureOnly(1))
    \/ Timed(ProcessFrame(1))
    \/ Timed(NextDetection(1))
    \/ Timed(SinkQuery(1))
    \/ Timed(SinkInsert(1))
    \/ Timed(SinkRaises(1))
    \/ Timed(Encode(1))
    \/ Quiet(Checkpoint2(1))
    \/ Quiet(Yield(1))
    \/ Quiet(Resume(1))
    \/ Quiet(Disconnect(1))
    \/ Quiet(Checkpoint3(1))
    \/ Quiet(Cleanup(1))
    \/ Quiet(StopCamera(1))
    \/ Quiet(StopStreamRequest("recognition"))
    \/ Timed(PostQuery)
    \/ Timed(PostInsert)
    \/ Timed(Tick)

SpecGate == InitAny /\ [][NextGate]_vars

\* Two recognition requests with their passes taken step by step and their
\* consumers, at one instant of the clock, under the default configuration.
Pair == {1, 2}

NextPair ==
    \/ \E g \in Pair : Quiet(GenerateStart(g, "recognition"))
    \/ \E g \in Pair : Quiet(WarmUp(g))
    \/ \E g \in Pair : Timed(SessionStart(g))
    \/ \E g \in Pair : Quiet(WhileCheck(g))
    \/ \E g \in Pair : Quiet(Checkpoint1(g))
    \/ \E g \in Pair : Timed(CaptureOnly(g))
    \/ \E g \in Pair : Timed(ProcessFrame(g))
    \/ \E g \in Pair : Timed(NextDetection(g))
    \/ \E g \in Pair : Timed(SinkQuery(g))
    \/ \E g \in Pair : Timed(SinkInsert(g))
    \/ \E g \in Pair : Timed(SinkRaises(g))
    \/ \E g \in Pair : Timed(Encode(g))
    \/ \E g \in Pair : Quiet(Checkpoint2(g))
    \/ \E g \in Pair : Quiet(Yield(g))
    \/ \E g \in Pair : Quiet(Resume(g))
    \/ \E g \in Pair : Quiet(Disconnect(g))
    \/ \E g \in Pair : Quiet(Checkpoint3(g))
    \/ \E g \in Pair : Quiet(Cleanup(g))
    \/ \E g \in Pair : Quiet(StopCamera(g))

SpecPair == Init /\ [][NextPair]_vars

\* A step of the known set and the matcher; the streams stand still.
Stored(A) ==
    /\ A
    /\ UNCHANGED <<camera_started, streaming, pc, kind, consecutive_errors, photo_pc, hist>>
    /\ UNCHANGED obs
    /\ UNCHANGED gate
    /\ UNCHANGED pipe
    /\ UNCHANGED cam
    /\ UNCHANGED wire
    /\ UNCHANGED more

\* The server started with any known set and any threshold.
InitMatch ==
    /\ InitService
    /\ InitGate(ATTENDANCE_COOLDOWN_MINUTES)
    /\ InitPipe(PROCESS_EVERY_N_FRAMES)
    /\ InitCam
    /\ InitWire
    /\ InitMore
    /\ \E list \in Catalogues, T \in 0..MaxThreshold : InitStore(list, T)

\* recognize_face applied to any embedding, the known set standing still.
NextMatch ==
    \/ \E e \in Coords : Stored(RfStart(e))
    \/ Stored(RfDistances)
    \/ Stored(RfName)
    \/ Stored(RfId)

SpecMatch == InitMatch /\ [][NextMatch]_vars

\* recognize_face on the thread of a stream and load_encodings_from_db on the
\* thread of a request (POST /reload_encodings, the end of an enrollment), in
\* any interleaving.
NextStore ==
    \/ \E e \in Coords : Stored(RfStart(e))
    \/ Stored(RfDistances)
    \/ Stored(RfName)
    \/ Stored(RfId)
    \/ \E list \in Catalogues : Stored(LoadFetch(list))
    \/ Stored(LoadClearEncodings)
    \/ Stored(LoadClearNames)
    \/ Stored(LoadClearIds)
    \/ Stored(LoadAppendEncoding)
    \/ Stored(LoadAppendName)
    \/ Stored(LoadAppendId)

\* The server started with any known set, under the largest threshold.
InitLoaded ==
    /\ InitService
    /\ InitGate(ATTENDANCE_COOLDOWN_MINUTES)
    /\ InitPipe(PROCESS_EVERY_N_FRAMES)
    /\ InitCam
    /\ InitWire
    /\ InitMore
    /\ \E list \in Catalogues : InitStore(list, MaxThreshold)

SpecStore == InitLoaded /\ [][NextStore]_vars

\* A step of the stream that says itself what becomes of the pipeline.
Framed(A) ==
    A /\ UNCHANGED obs /\ UNCHANGED store /\ UNCHANGED cam /\ UNCHANGED wire /\ UNCHANGED more

\* The server started with any stride.
InitFrames ==
    /\ InitService
    /\ InitGate(ATTENDANCE_COOLDOWN_MINUTES)
    /\ InitStore(<<>>, RECOGNITION_THRESHOLD)
    /\ InitCam
    /\ InitWire
    /\ InitMore
    /\ \E n \in 1..MaxStride : InitPipe(n)

\* One recognition request after the other, each with its consumer and its
\* passes taken step by step, and the stop requests.
NextFrames ==
    \/ Quiet(GenerateStart(1, "recognition"))
    \/ Quiet(WarmUp(1))
    \/ Framed(FrameSessionStart(1))
    \/ Quiet(WhileCheck(1))
    \/ Quiet(Checkpoint1(1))
    \/ Framed(FrameCapture(1))
    \/ Framed(FrameProcess(1))
    \/ Timed(NextDetection(1))
    \/ Timed(SinkQuery(1))
    \/ Timed(SinkInsert(1))
    \/ Timed(SinkRaises(1))
    \/ Timed(Encode(1))
    \/ Quiet(Checkpoint2(1))
    \/ Framed(FrameYield(1))
    \/ Quiet(Resume(1))
    \/ Quiet(Disconnect(1))
    \/ Quiet(Checkpoint3(1))
    \/ Quiet(Cleanup(1))
    \/ Quiet(StopCamera(1))
    \/ Quiet(StopStreamRequest("recognition"))

SpecFrames == InitFrames /\ [][NextFrames]_vars

\* A step of a stream that says itself what becomes of its bytes.
Wired(A) ==
    /\ A
    /\ UNCHANGED obs
    /\ UNCHANGED gate
    /\ UNCHANGED store
    /\ UNCHANGED pipe
    /\ UNCHANGED cam
    /\ UNCHANGED more

\* One streaming request of either kind after the other, each with its
\* consumer, and the stop requests.
NextWire ==
    \/ \E k \in Kinds : Quiet(GenerateStart(1, k))
    \/ Quiet(WarmUp(1))
    \/ Quiet(StartStream(1))
    \/ Quiet(WhileCheck(1))
    \/ Quiet(Checkpoint1(1))
    \/ Wired(WireCapture(1))
    \/ Quiet(Checkpoint2(1))
    \/ Wired(WireYield(1))
    \/ Quiet(Resume(1))
    \/ Quiet(Disconnect(1))
    \/ Quiet(Checkpoint3(1))
    \/ Quiet(Cleanup(1))
    \/ Quiet(StopCamera(1))
    \/ \E k \in Kinds : Quiet(StopStreamRequest(k))

SpecWire == Init /\ [][NextWire]_vars

\* A step of a request thread in load_encodings_from_db; no stream, no lookup.
Reloaded(A) ==
    /\ A
    /\ UNCHANGED <<camera_started, streaming, pc, kind, consecutive_errors, photo_pc, hist>>
    /\ UNCHANGED obs
    /\ UNCHANGED gate
    /\ UNCHANGED <<threshold, reload_pc, encodings_list, rf_pc, embedding,
                   min_distance_idx, min_distance, rf_name, result, rf_owner>>
    /\ UNCHANGED pipe
    /\ UNCHANGED cam
    /\ UNCHANGED wire
    /\ UNCHANGED held
    /\ UNCHANGED sink_calls
    /\ UNCHANGED run
    /\ UNCHANGED settled

\* POST /recognition/reload and POST /enrollment/complete, each calling
\* load_encodings_from_db on its own thread, again and again, in any
\* interleaving.
NextLoads ==
    \/ \E t \in Loaders, list \in Rosters : Reloaded(ReloadFetch(t, list))
    \/ \E t \in Loaders : Reloaded(ReloadClearEncodings(t))
    \/ \E t \in Loaders : Reloaded(ReloadClearNames(t))
    \/ \E t \in Loaders : Reloaded(ReloadClearIds(t))
    \/ \E t \in Loaders : Reloaded(ReloadAppendEncoding(t))
    \/ \E t \in Loaders : Reloaded(ReloadAppendName(t))
    \/ \E t \in Loaders : Reloaded(ReloadAppendId(t))

SpecLoads == Init /\ [][NextLoads]_vars

\* A step that leaves the rest of the service alone, and one that leaves the
\* attendance side and the session alone too.
Apart(A) == A /\ UNCHANGED obs /\ UNCHANGED others /\ UNCHANGED run /\ UNCHANGED settled
Aside(A) ==
    /\ A
    /\ UNCHANGED obs
    /\ UNCHANGED gate
    /\ UNCHANGED others
    /\ UNCHANGED held
    /\ UNCHANGED sink_calls
    /\ UNCHANGED run
    /\ UNCHANGED settled
Kept(A) == Apart(A) /\ UNCHANGED held /\ UNCHANGED sink_calls

\* One recognition stream marking attendance, the clock, and the request that
\* ends the session.
NextSession ==
    \/ Apart(SessionGenerate(1) /\ UNCHANGED gate)
    \/ Aside(WarmUp(1))
    \/ Apart(SessionBegin(1))
    \/ Aside(WhileCheck(1))
    \/ Aside(Checkpoint1(1))
    \/ Kept(CaptureOnly(1))
    \/ Apart(SessionProcess(1))
    \/ Apart(SessionDetection(1))
    \/ Kept(SinkQuery(1))
    \/ Apart(SessionInsert(1))
    \/ Kept(SinkRaises(1))
    \/ Kept(Encode(1))
    \/ Aside(Checkpoint2(1))
    \/ Aside(Yield(1))
    \/ Aside(Resume(1))
    \/ Aside(Disconnect(1))
    \/ Aside(Checkpoint3(1))
    \/ Aside(Cleanup(1))
    \/ Aside(StopCamera(1))
    \/ Aside(StopStreamRequest("recognition"))
    \/ Apart(EndSession)
    \/ Kept(Tick)

SpecSession == Init /\ [][NextSession]_vars

\* A step of the script's loop; the web service is not running beside it.
Run(A) ==
    /\ A
    /\ UNCHANGED <<streaming, pc, kind, consecutive_errors, photo_pc, hist>>
    /\ UNCHANGED obs
    /\ UNCHANGED <<cooldown_minutes, recent_detections, left, detection, offer_now,
                   post_pc, outcome, recorded_at>>
    /\ UNCHANGED others
    /\ UNCHANGED held
    /\ UNCHANGED sink_calls
    /\ UNCHANGED settled

\* python recognition_service.py: one run_recognition_loop call and the clock.
NextRun ==
    \/ Run(RunStart)
    \/ Run(RunWarm)
    \/ Run(RunCapture)
    \/ Run(RunProcess)
    \/ Run(RunOffer)
    \/ Run(RunSleep)
    \/ Run(RunFinally)
    \/ Run(RunTick)

SpecRun == InitAny /\ [][NextRun]_vars

\* A step of the service, and of its clients while they may still stop the
\* stream, disconnect or ask for a photo.
Lasting(A) ==
    /\ A
    /\ UNCHANGED obs
    /\ UNCHANGED gate
    /\ UNCHANGED others
    /\ UNCHANGED held
    /\ UNCHANGED sink_calls
    /\ UNCHANGED run
    /\ UNCHANGED settled
Unsettled(A) == settled = "no" /\ Lasting(A)

\* A pass of the loop: any outcome at first; a frame every time once the
\* camera works.
Working(g, A) == Lasting(A) /\ (settled # "no" => pc'[g] \in {"chk2", "capwarm"})

\* A session has returned to idle, by a stop, a disconnect or the error
\* ceiling; from here on the camera delivers frames, every consumer keeps
\* pulling and no stop is requested.
Settle ==
    /\ settled = "no"
    /\ pc[1] = "done"
    /\ photo_pc = "idle"
    /\ settled' = reason[1]
    /\ UNCHANGED <<camera_started, streaming, pc, kind, consecutive_errors, photo_pc, hist>>
    /\ UNCHANGED obs
    /\ UNCHANGED gate
    /\ UNCHANGED others
    /\ UNCHANGED held
    /\ UNCHANGED sink_calls
    /\ UNCHANGED run

\* What the server thread of GET /recognition/stream does once generate_frames
\* has been called, its consumer pulling.
ServerStep ==
    \/ Lasting(WarmUp(1))
    \/ Lasting(StartStream(1))
    \/ Lasting(WhileCheck(1))
    \/ Lasting(Checkpoint1(1))
    \/ Working(1, CaptureFrame(1))
    \/ Lasting(Checkpoint2(1))
    \/ Lasting(Yield(1))
    \/ Lasting(Resume(1))
    \/ Lasting(Checkpoint3(1))
    \/ Lasting(Cleanup(1))
    \/ Lasting(StopCamera(1))

\* One recognition stream started again and again, the requests that stop it
\* and the photo requests that use the camera beside it.
NextLive ==
    \/ Lasting(GenerateStart(1, "recognition"))
    \/ ServerStep
    \/ Unsettled(Disconnect(1))
    \/ Unsettled(StopStreamRequest("recognition"))
    \/ Unsettled(PhotoStart)
    \/ Unsettled(PhotoWarm)
    \/ Unsettled(PhotoCapture)
    \/ Settle

\* The server runs the generator's thread whenever the consumer pulls, and the
\* consumer that has not disconnected pulls again.
SpecLive == Init /\ [][NextLive]_vars /\ WF_vars(ServerStep)

\* A call of a camera method with no stream and no request beside it.
Called(A) ==
    /\ A
    /\ UNCHANGED <<streaming, pc, kind, consecutive_errors, photo_pc, hist>>
    /\ UNCHANGED obs
    /\ UNCHANGED gate
    /\ UNCHANGED store
    /\ UNCHANGED pipe
    /\ UNCHANGED wire
    /\ UNCHANGED more

\* The camera methods called in any order by one thread.
NextCamera ==
    \/ Called(CallStartCamera)
    \/ Called(CallStopCamera)
    \/ Called(CallCaptureFrame)

SpecCamera == Init /\ [][NextCamera]_vars

(***************************************************************************)
(* Steps, as seen from outside                                             *)
(***************************************************************************)

\* Positions at which a generator reads its flag.
FlagReads == {"while", "chk1", "chk2", "chk3"}

\* This step is g reading its flag.
ReadsFlag(g) == pc[g] \in FlagReads /\ pc'[g] # pc[g]

\* This step is g calling picam2.capture_array().
Captures(g) ==
    /\ pc[g] \in {"capture", "capwarm"}
    /\ pc'[g] \notin {"capture", "capwarm"}

\* This step is g returning from the generator.
Returns(g) == pc[g] = "stopcam" /\ pc'[g] = "done"

\* This step is g starting, stopping or capturing from the camera device.
UsesCamera(g) ==
    \/ pc[g] \in {"idle", "done"} /\ pc'[g] = "warm"
    \/ pc[g] \in {"capture", "capwarm"} /\ pc'[g] # pc[g]
    \/ Returns(g) /\ camera_started

\* This step is the photo request starting or capturing from the camera device.
PhotoUsesCamera == photo_pc' # photo_pc /\ (photo_pc' = "warm" \/ photo_pc = "capture")

\* This step is g's for loop looking at its next detection.
Offers(g) == pc[g] = "offers" /\ (pc'[g] # "offers" \/ left'[g] # left[g])

\* This step is g calling DatabaseManager.mark_attendance.
SinkCalled(g) == pc[g] = "offers" /\ pc'[g] = "query"

\* This step is g's call of DatabaseManager.mark_attendance coming back.
SinkReturns(g) == pc[g] \in {"query", "insert"} /\ pc'[g] \in {"offers", "encode"}

\* The durable cooldown window has elapsed since the last record.
Elapsed == Len(records) > 0 /\ ~recent_record(clock)

\* What the consumer of g is given when the stream is over: on every path the
\* generator returns by falling off its end after the cleanup, without a raise
\* and without an error part, so the response just ends.
ending(g) == IF pc[g] = "done" THEN "end_of_stream" ELSE "open"

(***************************************************************************)
(* Claims                                                                  *)
(***************************************************************************)

\* C1 (as stated): once the recognition flag is false, and until it is set
\* true again, a generate_frames loop emits no output unit and starts no
\* capture: it has done neither while the flag was false.
C1_NothingAfterStop ==
    \A g \in Loops : kind[g] = "recognition" => stale[g] = 0

\* C1 (amended): once the recognition flag is false, and until it is set true
\* again, a generate_frames loop leaves at the first flag read it reaches; before
\* that read it does at most the one capture or the one yield that its previous
\* flag read had already let through.
C1_ExitsAtFirstCheckpoint ==
    /\ [](\A g \in Loops : kind[g] = "recognition" => stale[g] <= 1)
    /\ [][\A g \in Loops :
            (kind[g] = "recognition" /\ ReadsFlag(g) /\ ~streaming["recognition"])
                => pc'[g] = "cleanup"]_vars

\* C1 witness: a recognition loop that did one capture or yield after the flag
\* went false, then saw the flag false at its next flag read and left.
C1_Witness ==
    \E g \in Loops :
        /\ kind[g] = "recognition"
        /\ stale[g] = 1
        /\ reason[g] = "stop"
        /\ pc[g] = "stopcam"

\* C2: whichever way a loop ended, when its generator returns the flag of its
\* kind is false and camera_started is false.
C2_ReturnsStopped ==
    [][\A g \in Loops :
          Returns(g) => (~camera_started' /\ ~streaming'[kind[g]])]_vars

C4_StopNeedsNoConsumer ==
    \A g \in Loops :
        (kind[g] = "recognition" /\ pending[g] /\ pc[g] = "suspended")
            => ENABLED LoopStep(g)

\* C5: a recognition loop that was running when a stop request was issued
\* leaves at its next flag read, whatever other threads did in between.
C5_StopObservedAtNextCheckpoint ==
    [][\A g \in Loops :
          (kind[g] = "recognition" /\ pending[g] /\ ReadsFlag(g))
              => pc'[g] = "cleanup"]_vars

\* C6: at no time are two loops of the same kind running on the service.
C6_OneLoopPerKind ==
    \A k \in Kinds : Cardinality({g \in Loops : kind[g] = k /\ Running(g)}) <= 1

\* C7: no loop captures a frame while a loop of the other kind is running.
C7_NoInterleavedCapture ==
    [][\A g \in Loops :
          Captures(g) => (\A h \in Loops : Running(h) => kind[h] = kind[g])]_vars

\* C8: while a streaming loop is running, no other thread starts, stops or
\* captures from the camera.
C8_SingleWriter ==
    [][/\ \A g \in Loops : UsesCamera(g) => (\A h \in Loops \ {g} : ~Running(h))
       /\ PhotoUsesCamera => (\A h \in Loops : ~Running(h))]_vars

\* C9: after five failed passes in a row (no frame, encode failure or exception,
\* in any mix) the loop is no longer running.
C9_FiveFailuresStop ==
    \A g \in Loops : streak[g] >= max_consecutive_errors => ~Running(g)

\* C10: after a successful pass consecutive_errors is zero, and a loop is left
\* at the error ceiling only after max_consecutive_errors failed passes in a row
\* with no successful pass between them.
C10_SuccessResetsCounter ==
    \A g \in Loops :
        /\ pc[g] \in {"chk2", "yield", "suspended", "chk3"} => consecutive_errors[g] = 0
        /\ consecutive_errors[g] <= streak[g]
        /\ reason[g] = "ceiling" => streak[g] = max_consecutive_errors

\* C10 witness: a session that has seen max_consecutive_errors or more failed
\* passes, split by a successful one, and is still running.
C10_Witness ==
    \E g \in Loops :
        /\ Running(g)
        /\ fails[g] >= max_consecutive_errors
        /\ streak[g] < max_consecutive_errors
        /\ consecutive_errors[g] > 0

\* C11: when the error ceiling ended a session, what the consumer is given at
\* the end is a terminal error, not the plain end of stream that follows a stop.
C11_CeilingSurfacesError ==
    \A g \in Loops :
        (pc[g] = "done" /\ reason[g] = "ceiling") => ending(g) # "end_of_stream"

\* C12: a running generate_frames loop is left only at a read of its flag that
\* finds it false, at a consumer disconnect, or by the failure that brings
\* consecutive_errors to max_consecutive_errors; it is left through the cleanup,
\* never by an exception that reaches the consumer.
C12_EndsOnlyByFlagOrCeiling ==
    [][\A g \in Loops :
          (kind[g] = "recognition" /\ Running(g) /\ pc'[g] \notin LoopPcs)
              => /\ pc'[g] = "cleanup"
                 /\ \/ ReadsFlag(g) /\ ~streaming["recognition"]
                    \/ pc[g] = "suspended" /\ reason'[g] = "disconnect"
                    \/ /\ consecutive_errors[g] + 1 = max_consecutive_errors
                       /\ reason'[g] = "ceiling"]_vars

\* C12 witness: a loop still running after max_consecutive_errors - 1 failures
\* in a row, the last one an exception of process_frame.
C12_Witness ==
    /\ pc[1] = "while"
    /\ consecutive_errors[1] = max_consecutive_errors - 1
    /\ outcome[1] \in {"DetectError", "MatchError"}

\* C13: in one session, mark_attendance is not called for an identity during
\* the 30 s after the sink returned a record for it.
C13_RecordedThenSuppressed ==
    [][\A g \in Loops : \A s \in Students :
          (SinkCalled(g) /\ detection'[g] = s /\ s \in DOMAIN recorded_at[g])
              => (clock - recorded_at[g][s]) * TickSeconds > local_cooldown_seconds]_vars

\* C14: the cooldown entry of a loop is written only by the step in which the
\* sink returns it a new record, with the offer's now; an offer is Recorded only
\* in such a step; when the sink returns None or raises, the map is unchanged
\* and does not hold the identity back.
C14_StampOnlyOnRecord ==
    [][\A g \in Loops :
          /\ (recent_detections'[g] # recent_detections[g] /\ pc[g] # "setflag")
                => /\ pc[g] = "insert"
                   /\ Len(records') = Len(records) + 1
                   /\ outcome'[g] = "Recorded"
                   /\ recent_detections'[g] =
                         Put(recent_detections[g], detection[g], offer_now[g])
          /\ (outcome'[g] = "Recorded" /\ outcome[g] # "Recorded")
                => Len(records') = Len(records) + 1
          /\ (SinkReturns(g) /\ outcome'[g] \in {"Null", "Raised"})
                => /\ recent_detections' = recent_detections
                   /\ ~Cooling(g, detection[g], clock')]_vars

\* C14 witness: the sink returned None to a session whose map has no entry for
\* the identity (the record is from an earlier session or from POST
\* /attendance).
C14_Witness ==
    /\ outcome[1] = "Null"
    /\ recent_detections[1] = EmptyMap
    /\ Len(records) >= 1

\* C15: mark_attendance is called, and is in progress, only for a detection
\* whose name is a student's, never "Unknown".
C15_UnknownNeverOffered ==
    /\ [][\A g \in Loops : SinkCalled(g) => detection'[g] \in Students]_vars
    /\ [](\A g \in Loops : pc[g] \in {"query", "insert"} => detection[g] \in Students)

\* C15 witness: the for loop went past an "Unknown" detection without a sink
\* call, after it had recorded a student.
C15_Witness ==
    /\ detection[1] = "Unknown"
    /\ outcome[1] = "Unknown"
    /\ recorded_at[1] # EmptyMap

\* C16: no two attendance records of the session and student are closer to
\* each other than the configured cooldown.
C16_NoTwoRecordsWithinCooldown ==
    \A i, j \in 1..Len(records) :
        i < j => (records[j] - records[i]) * TickSeconds
                    >= cooldown_minutes * SecondsPerMinute

\* C17 (as stated): whatever the configured cooldown, a detection of a student
\* looked at once the durable window has elapsed since the last record goes to
\* the sink, the sink's query finds no recent row, and the insert gives Recorded.
C17_RecordedAfterDurable ==
    /\ [][\A g \in Loops :
            (Offers(g) /\ detection'[g] \in Students /\ Elapsed) => pc'[g] = "query"]_vars
    /\ [][\A g \in Loops :
            (pc[g] = "query" /\ pc'[g] # "query" /\ outcome'[g] # "Raised" /\ Elapsed)
                => pc'[g] = "insert"]_vars
    /\ [][\A g \in Loops :
            (pc[g] = "insert" /\ pc'[g] # "insert" /\ outcome'[g] # "Raised")
                => outcome'[g] = "Recorded"]_vars

\* C17 (amended): the same for every configured cooldown of at least one
\* minute.
C17_RecordedAfterDurableMinute ==
    /\ [][\A g \in Loops :
            (cooldown_minutes >= 1 /\ Offers(g) /\ detection'[g] \in Students /\ Elapsed)
                => pc'[g] = "query"]_vars
    /\ [][\A g \in Loops :
            (cooldown_minutes >= 1 /\ pc[g] = "query" /\ pc'[g] # "query"
                /\ outcome'[g] # "Raised" /\ Elapsed)
                => pc'[g] = "insert"]_vars
    /\ [][\A g \in Loops :
            (cooldown_minutes >= 1 /\ pc[g] = "insert" /\ pc'[g] # "insert"
                /\ outcome'[g] # "Raised")
                => outcome'[g] = "Recorded"]_vars

\* C17 witness: a session that holds a cooldown entry of the student (it
\* recorded the student before) is in the sink's insert once the durable window
\* of at least one minute has elapsed.
C17_Witness ==
    /\ cooldown_minutes >= 1
    /\ pc[1] = "insert"
    /\ "s1" \in DOMAIN recent_detections[1]
    /\ Elapsed

\* C18: a session starts with an empty map; the map of a loop holds an identity
\* only if the sink returned a record for it to this session; only the loop's
\* own steps change its map; the local cooldown skips a detection only of an
\* identity recorded in this session.
C18_OwnCooldownSet ==
    /\ [](\A g \in Loops : DOMAIN recent_detections[g] \subseteq DOMAIN recorded_at[g])
    /\ [][\A g \in Loops :
            /\ (pc[g] = "setflag" /\ pc'[g] = "while") => recent_detections'[g] = EmptyMap
            /\ recent_detections'[g] # recent_detections[g] => pc[g] \in {"setflag", "insert"}
            /\ (Offers(g) /\ outcome'[g] = "InMemory")
                  => detection'[g] \in DOMAIN recorded_at[g]]_vars

\* C18 witness: two sessions running at once, the first has recorded the
\* student and holds the entry, the second has no entry and its offer of the
\* same student went to the sink, which returned None.
C18_Witness ==
    /\ Running(1) /\ Running(2)
    /\ "s1" \in DOMAIN recent_detections[1]
    /\ recent_detections[2] = EmptyMap
    /\ outcome[2] = "Null"

\* C19: when mark_attendance raises, the loop stays in the pass: the counter,
\* the flag and the reason are unchanged, the cooldown map and the records are
\* unchanged, and the for loop goes to the next detection or, after the last,
\* to imencode.
C19_SinkErrorAbsorbed ==
    [][\A g \in Loops :
          (pc[g] \in {"query", "insert"} /\ outcome'[g] = "Raised")
              => /\ consecutive_errors' = consecutive_errors
                 /\ streaming' = streaming /\ reason' = reason
                 /\ recent_detections' = recent_detections /\ records' = records
                 /\ left'[g] = left[g] - 1
                 /\ pc'[g] = IF left[g] > 1 THEN "offers" ELSE "encode"]_vars

\* C19 witness: the frame of a pass in which mark_attendance raised has been
\* given to the consumer, with the counter at zero.
C19_Witness ==
    /\ outcome[1] = "Raised"
    /\ pc[1] = "suspended"
    /\ consecutive_errors[1] = 0

\* C20: when recognize_face raises for a detection, the pass goes on (to the
\* offers of the other detections or to imencode) and consecutive_errors is not
\* advanced.
C20_MatchErrorSkipsOneDetection ==
    [][\A g \in Loops :
          (pc[g] = "process" /\ outcome'[g] = "MatchError")
              => /\ pc'[g] \in {"offers", "encode"}
                 /\ consecutive_errors'[g] = consecutive_errors[g]]_vars

\* This step is recognize_face returning (or raising).
RfReturns == rf_pc' = "idle" /\ (rf_pc # "idle" \/ embedding' # embedding \/ result' # result)

\* This step is recognize_face reading the known set.
RfReads == rf_pc' # rf_pc \/ embedding' # embedding \/ result' # result

\* The three lists hold exactly the rows of list, in its order.
StoreIs(list) ==
    /\ known_encodings = [i \in 1..Len(list) |-> list[i].enc]
    /\ known_names = [i \in 1..Len(list) |-> name_of(list[i].id)]
    /\ known_ids = [i \in 1..Len(list) |-> list[i].id]

\* The least of the distances from e to the encodings of a non-empty K.
LeastDistance(K, e) ==
    CHOOSE m \in {Distance(K[i], e) : i \in 1..Len(K)} :
        \A i \in 1..Len(K) : m <= Distance(K[i], e)

\* C21: whenever recognize_face reads the known set while a reload may be
\* running, the three lists are the complete set of before the reload or the
\* complete set it installs.
C21_ReloadAtomic ==
    [][RfReads => (StoreIs(loaded) \/ StoreIs(encodings_list))]_vars

\* C22: a name and id returned by recognize_face are those of the entry whose
\* encoding gave the minimum distance, also with a reload in between.
C22_ResultOfNearestEntry ==
    [][(RfReturns /\ result'.name \notin {"raised", "Unknown"}) =>
        (result'.id = rf_owner' /\ result'.name = name_of(rf_owner'))]_vars

\* C23: recognize_face returns Unknown without an id exactly when the known set
\* is empty or the least distance is at least the threshold; otherwise the name
\* and id of an entry at the least distance, with that distance.
C23_UnknownIffEmptyOrFar ==
    [][RfReturns =>
        LET K == known_encodings
            far == Len(K) = 0 \/ LeastDistance(K, embedding') >= threshold
        IN  /\ (result'.name = "Unknown" /\ result'.id = NoId) <=> far
            /\ ~far => \E i \in 1..Len(K) :
                          /\ Distance(K[i], embedding') = LeastDistance(K, embedding')
                          /\ result' = [name |-> known_names[i],
                                        distance |-> LeastDistance(K, embedding'),
                                        id |-> known_ids[i]]]_vars

\* A match just under the threshold has been returned.
C23_Witness ==
    /\ rf_pc = "idle"
    /\ result.id # NoId
    /\ result.distance + 1 = threshold
    /\ result.id = known_ids[1]

\* C24: of several entries at the least distance, the one returned is the
\* first in the order of the store.
C24_TieToFirst ==
    [][(RfReturns /\ result'.id # NoId) =>
        \E i \in 1..Len(known_encodings) :
            /\ Distance(known_encodings[i], embedding') = result'.distance
            /\ \A j \in 1..(i - 1) : Distance(known_encodings[j], embedding') > result'.distance
            /\ result'.id = known_ids[i]
            /\ result'.name = known_names[i]]_vars

\* Two students at the same distance, and the first of them returned.
C24_Witness ==
    /\ rf_pc = "idle"
    /\ Len(known_encodings) >= 2
    /\ known_ids[1] # known_ids[2]
    /\ Distance(known_encodings[1], embedding) = Distance(known_encodings[2], embedding)
    /\ result = [name |-> known_names[1],
                 distance |-> Distance(known_encodings[1], embedding),
                 id |-> known_ids[1]]

\* C25: with an empty known set recognize_face returns Unknown, the distance
\* 1.0 and no id, whatever the embedding and the threshold.
C25_EmptySetUnknown ==
    [][(RfReturns /\ Len(known_encodings) = 0) =>
        result' = [name |-> "Unknown", distance |-> sentinel_distance, id |-> NoId]]_vars

\* The sentinel returned for an embedding other than the initial one, under a
\* threshold above it.
C25_Witness ==
    /\ rf_pc = "idle"
    /\ Len(known_encodings) = 0
    /\ embedding # 0
    /\ threshold > sentinel_distance
    /\ result.name = "Unknown"
    /\ result.distance = sentinel_distance
    /\ result.id = NoId

\* This step is a process_frame call of g, from entry to return or raise.
ProcessStep(g) == pc[g] = "process" /\ pc'[g] # "process"

\* This step is g yielding an output unit.
YieldStep(g) == pc[g] = "yield" /\ pc'[g] = "suspended"

\* C26: app.get runs on exactly the process_frame calls made with the frame
\* counter at a multiple of the stride, and stores the faces of the frame of the
\* call; on the other calls the faces stored are left as they are and those are
\* the detections returned, the faces of the most recent processed frame.
C26_DetectOnStride ==
    [][ProcessStep(1) =>
        /\ detected'[1] <=> (\E k \in 0..MaxFrames : frame_counter = k * process_every)
        /\ (detected'[1] /\ outcome'[1] # "DetectError") => last_faces'.frame = frame[1]
        /\ ~detected'[1] =>
              /\ last_faces' = last_faces
              /\ drawn'[1] = last_faces.frame
              /\ pc'[1] \in {"encode", "offers"} => left'[1] = last_faces.n]_vars

\* Under the default stride, a call that did not detect has returned the faces
\* of an earlier frame.
C26_Witness ==
    /\ process_every = PROCESS_EVERY_N_FRAMES
    /\ pc[1] = "offers"
    /\ ~detected[1]
    /\ drawn[1] >= 1
    /\ drawn[1] < frame[1]
    /\ left[1] >= 1

CallStep == trace' # trace

\* The method called last.
LastCall == IF Len(trace) = 0 THEN "none" ELSE trace[Len(trace)]

\* C29: a start_camera on a started camera and a stop_camera on a stopped one
\* make no device call and raise nothing, and after any sequence of calls that
\* ends with a start_camera or stop_camera that returned, the device and the
\* flag are started exactly when that last call was start_camera.
C29_StartStopIdempotent ==
    /\ [][(CallStep /\ trace' = Append(trace, "start_camera") /\ camera_started) =>
            (device_calls' = device_calls /\ cam_result' = "returned"
               /\ device' /\ camera_started')]_vars
    /\ [][(CallStep /\ trace' = Append(trace, "stop_camera") /\ ~camera_started) =>
            (device_calls' = device_calls /\ cam_result' = "returned"
               /\ ~device' /\ ~camera_started')]_vars
    /\ []((LastCall \in {"start_camera", "stop_camera"} /\ cam_result = "returned") =>
            /\ device <=> LastCall = "start_camera"
            /\ camera_started <=> device)

\* start_camera twice, then stop_camera twice: two device calls in all.
C29_Witness ==
    /\ trace = <<"start_camera", "start_camera", "stop_camera", "stop_camera">>
    /\ cam_result = "returned"
    /\ device_calls = 2
    /\ ~device

\* C30: no capture_frame call raises, whatever the device does.
C30_CaptureNeverRaises ==
    LastCall = "capture_frame" => cam_result # "raised"

\* C31: generate_enrollment_preview keeps the cancellation discipline of
\* generate_frames, its flag being read before the capture, before the yield and
\* after the yield: once the enrollment flag is false, and until it is set true
\* again, a preview loop does at most the one capture or the one yield that its
\* last flag read had already let through, never a capture and then a yield.
C31_PreviewExitsAtFirstCheckpoint ==
    \A g \in Loops : kind[g] = "enrollment" => stale[g] <= 1

C33_UnitIsOnePart ==
    /\ [][\A g \in Loops : YieldStep(g) =>
            /\ frame_bytes[g] \in Jpegs
            /\ Len(unit'[g]) = 37 + Len(frame_bytes[g]) + 2
            /\ SubSeq(unit'[g], 1, 37) =
                  <<45, 45, 102, 114, 97, 109, 101, 13, 10,
                    67, 111, 110, 116, 101, 110, 116, 45, 84, 121, 112, 101, 58, 32,
                    105, 109, 97, 103, 101, 47, 106, 112, 101, 103, 13, 10, 13, 10>>
            /\ SubSeq(unit'[g], 38, 37 + Len(frame_bytes[g])) = frame_bytes[g]
            /\ SubSeq(unit'[g], 38 + Len(frame_bytes[g]), Len(unit'[g])) = <<13, 10>>]_vars
    /\ [][\A g \in Loops : unit'[g] # unit[g] => YieldStep(g)]_vars

\* A preview stream has yielded a unit around a frame of the greatest length
\* whose bytes have a line feed among them.
C33_Witness ==
    /\ pc[1] = "suspended"
    /\ kind[1] = "enrollment"
    /\ Len(frame_bytes[1]) = 4 + MaxBody
    /\ frame_bytes[1][Len(frame_bytes[1]) - 2] = 10
    /\ Len(unit[1]) = 39 + Len(frame_bytes[1])

\* C34: whenever a session calls the sink, the faces its for loop is going
\* over are those of a frame captured in that session, not faces that an
\* earlier session left in last_faces.
C34_OfferedFacesOfThisSession ==
    [][SinkCalled(1) => drawn[1] > since[1]]_vars

\* C35: whenever no load_encodings_from_db call is in progress, the three
\* lists are equally long and hold, row by row, the result that one of the
\* calls fetched, each row once.
C35_LoadsLeaveOneResult ==
    (\A t \in Loaders : loads[t].pc = "idle") =>
        /\ Len(known_encodings) = Len(known_names)
        /\ Len(known_names) = Len(known_ids)
        /\ \A i \in 1..Len(known_ids) : known_names[i] = name_of(known_ids[i])
        /\ \E t \in Loaders : StoreIs(loads[t].list)

\* C36: every row of attendance_records was inserted while its session was
\* active: none is created once end_session has run.
C36_NoRecordAfterEnd ==
    \A i \in 1..Len(record_status) : record_status[i] = "active"

\* C37 as claimed: a session calls the sink for a student only when more than
\* 30 seconds have passed since it last called the sink for that student,
\* whatever that call answered.
C37_SinkOncePerWindow ==
    [][(SinkCalled(1) /\ detection'[1] \in DOMAIN sink_calls[1])
          => (clock - sink_calls[1][detection'[1]].last) * TickSeconds
                > local_cooldown_seconds]_vars

\* C37: a session calls the sink for a student only when more than 30 seconds
\* have passed since its last call for that student that was Recorded; a call
\* answered by None or by an exception does not hold the next one back.
C37_SinkOncePerWindowAfterRecord ==
    [][(SinkCalled(1) /\ detection'[1] \in DOMAIN sink_calls[1]
          /\ sink_calls[1][detection'[1]].recorded # NoTime)
          => (clock - sink_calls[1][detection'[1]].recorded) * TickSeconds
                > local_cooldown_seconds]_vars

\* C37 witness: the sink is being called a second time for a student whose
\* earlier call in this session was Recorded.
C37_Witness ==
    /\ pc[1] = "query"
    /\ detection[1] \in DOMAIN sink_calls[1]
    /\ sink_calls[1][detection[1]].recorded # NoTime
    /\ sink_calls[1][detection[1]].last > sink_calls[1][detection[1]].recorded

\* C38: whenever no streaming loop is running and no enrollment photo is being
\* captured, the camera is stopped.
C38_IdleCameraStopped ==
    ((\A g \in Loops : pc[g] \in {"idle", "done"}) /\ photo_pc = "idle")
        => ~camera_started

\* C39: run_recognition_loop is not ended by an exception of mark_attendance
\* nor by a capture that returned None, and once it has been left the camera
\* is stopped.
C39_LoopSurvivesSinkAndCapture ==
    /\ run.why \notin {"sink", "capture"}
    /\ run.pc = "ended" => ~camera_started

\* generate_frames has been called after an earlier session returned to idle.
Restarted == settled # "no" /\ pc[1] \in {"warm", "setflag"}

\* C40: a generate_frames call made after an earlier session has returned to
\* idle gets to its loop with the camera started and the flag True, and, the
\* camera working and the consumer pulling, yields a unit.
C40_RestartEmits ==
    /\ Restarted ~> (pc[1] = "while" /\ camera_started /\ streaming["recognition"])
    /\ Restarted ~> (pc[1] = "suspended" /\ camera_started /\ streaming["recognition"])

\* C40 witness: a session that was started after the error ceiling had ended
\* the one before it has yielded a unit.
C40_Witness ==
    /\ settled = "ceiling"
    /\ pc[1] = "suspended"
    /\ camera_started
    /\ streaming["recognition"]

====
